---- MODULE Spec2Model ----
(***************************************************************************)
(* A model of the vfilter Scope (scope.go): the variable stack and         *)
(* Resolve, the function / plugin registries, the protocol dispatchers,    *)
(* the scope tree built by Copy(), and the destructor life cycle           *)
(* (AddDestructor / Close) with the scope mutex and the per-destructor     *)
(* timeout made explicit.                                                  *)
(*                                                                         *)
(* Go slices and maps are references: a scope field holding one is         *)
(* modelled as an index into a heap of lists (varsHeap, dispHeap) or of    *)
(* maps (funcHeap, plugHeap); what Copy()/NewScope() share and what they   *)
(* duplicate is then visible in the model.                                 *)
(***************************************************************************)
EXTENDS Integers, Sequences, FiniteSets, TLC

\* ------------------------------------------------------------------ bounds
MaxScopes    == 3  \* scopes created (SpecVars, SpecReg, SpecProto, SpecTree)
MaxAppends   == 3  \* AppendVars calls                      (SpecVars)
MaxRegs      == 2  \* AppendFunctions / AppendPlugins calls (SpecReg)
MaxImpls     == 2  \* AddProtocolImpl calls                 (SpecProto)
MaxLive      == 2  \* scopes created        (Spec, SpecLive, SpecNest)
MaxDtors     == 2  \* host AddDestructor calls (Spec, SpecLive, SpecNest)
MaxTreeDtors == 1  \* host AddDestructor calls (SpecTree)
MaxCtxCalls  == 2  \* AppendVars / SetContext / ClearContext calls (SpecNew)
MaxNormVars  == 2  \* AppendVars calls                             (SpecNorm)
MaxIterImpls == 2  \* implementations given to AddImpl             (SpecIter)
MaxCounter   == 4  \* calls of counter()                            (SpecLet)
MaxTokens    == 7  \* tokens of an expression text                (SpecParse)
MaxRows      == 3  \* rows of the source plugin                    (SpecLazy)

\* ------------------------------------------------------------------ values
Nil  == "nil"      \* the host (Go) nil
Null == "Null"     \* vfilter Null{}

VARIABLES
  \* --- per scope (sequences indexed by scope id, in creation order)
  vars,          \* Scope.vars: reference to a list of frames in varsHeap
  context,       \* Scope.context: reference to a dict in ctxHeap
  functions,     \* Scope.functions: reference to a map in funcHeap
  plugins,       \* Scope.plugins: reference to a map in plugHeap
  dispatchers,   \* the eleven dispatcher fields: reference into dispHeap
  children,      \* Scope.children: sequence of scope ids
  fn,            \* Scope.destructors.fn: sequence of destructor ids
  is_destroyed,  \* Scope.destructors.is_destroyed
  mutex,         \* Scope.Mutex: the task holding it, or NoTask
  from,          \* the scope a scope was made from (0 for a factory scope)
  how,           \* made by "factory", by "copy" (Copy) or by "new" (NewScope)
  \* --- heaps
  varsHeap, funcHeap, plugHeap, dispHeap, ctxHeap,
  \* --- host calls
  calls,         \* number of registry / variable / dispatcher calls made
  panicMsg,      \* message of the last panic raised to the host ("" if none)
  \* --- destructor closures (sequences indexed by destructor id)
  kind,          \* what the closure does: "ret", "hang", "nest"
  owner,         \* the scope AddDestructor was called on
  nestOf,        \* 0 if the host registered it, else the closure that did
  invoked,       \* how many times the closure has been called
  ranIn,         \* the task of its last call (NoTask if never called)
  \* --- Close() call stack of the closing task
  stack,
  \* --- the slice ds and the loop variable i of each Close() that had
  \*     destructors to run (the goroutines' closures capture both)
  cellDs, cellI,
  \* --- tasks that run destructors (sequences indexed by task id): task
  \*     Adder is the host task calling AddDestructor, task GoTask(d) the
  \*     goroutine Close starts for ds[i] = d
  epc,           \* "idle", "none", "launched", "body", "done"
  erun,          \* the closure the task is running (0 if none)
  ecell,         \* the Close() whose loop started the goroutine (0 if none)
  cancelled,     \* cancel() of the goroutine's context was called
  timedout,      \* the 60 s timer of the goroutine's context fired
  crashed,       \* an unrecovered panic in a goroutine ended the process
  \* --- RowToDict
  inRow,         \* the row the host has built (an ordered dict)
  outRow,        \* what the last RowToDict(inRow) returned
  \* --- IterateDispatcher and the Iterate() call in progress
  itImpl,        \* IterateDispatcher.impl
  itArg,         \* the argument a of the call (NoResult: no call)
  itPath,        \* "dict", "query", "impl", "fallback" ("" if no call)
  itConsulted,   \* indexes of the implementations whose Applicable ran
  itInvoked,     \* index of the implementation invoked (0: none)
  itChan,        \* the returned channel: "none", "open", "closed"
  itToSend,      \* rows the producer has still to send
  itDelivered,   \* rows the consumer has received
  itCtxDone,     \* ctx.Done() of the call is closed
  \* --- LET and the counter() function of the tests
  CounterFunctionCount,  \* how many times counter() has been called
  letVars,       \* what each LET name is bound to in the scope
  letRows,       \* the rows the last query gave
  \* --- Parse and ToString
  qText,         \* the text of an expression, as a sequence of tokens
  qParsed,       \* Parse(qText) (NoResult: not parsed yet)
  qString,       \* the ToString of the parsed expression
  qReparsed,     \* Parse(qString)
  \* --- SELECT foo, panic(column=foo, value=v) FROM test() WHERE foo = w
  lrQuery,       \* the query being evaluated (NoResult: none)
  lrPos,         \* how many source rows the evaluator has taken
  lrOut,         \* the rows emitted, by the foo of their source row
  lrRead,        \* how many emitted rows the consumer has read
  panicCalls,    \* the foo of every row panic() has been called for
  lrPanicked,    \* panic() has panicked
  \* --- TestEvalWhereClause
  evClause,      \* the clause reduced last (NoResult: none yet)
  evValue,       \* the value it reduced to
  \* --- Replay: Marshal / Unmarshal of a LET definition
  rpStored,      \* the definition Marshal is called on (NoResult: none yet)
  rpItem,        \* the MarshalItem given to Unmarshal (NoResult: none yet)
  rpErr,         \* what Unmarshal returned as error ("none": not called)
  rpBound,       \* what the target scope binds after Unmarshal
  rpEvals        \* how many statements Unmarshal has evaluated

scopeVars == <<vars, functions, plugins, dispatchers, children, fn,
               is_destroyed, mutex, from, how>>
heapVars  == <<varsHeap, funcHeap, plugHeap, dispHeap>>
ctxVars   == <<context, ctxHeap>>
hostVars  == <<calls, panicMsg>>
dtorVars  == <<kind, owner, nestOf, invoked, ranIn>>
closeVars == <<stack, cellDs, cellI>>
taskVars  == <<epc, erun, ecell, cancelled, timedout>>
coreVars  == <<scopeVars, heapVars, ctxVars, hostVars, dtorVars, closeVars,
               taskVars, crashed>>
normVars  == <<inRow, outRow>>
iterVars  == <<itImpl, itArg, itPath, itConsulted, itInvoked, itChan,
               itToSend, itDelivered, itCtxDone>>
letState  == <<CounterFunctionCount, letVars, letRows>>
parseVars == <<qText, qParsed, qString, qReparsed>>
lazyVars  == <<lrQuery, lrPos, lrOut, lrRead, panicCalls, lrPanicked>>
evalVars  == <<evClause, evValue>>
replayVars == <<rpStored, rpItem, rpErr, rpBound, rpEvals>>
auxVars   == <<normVars, iterVars, letState, parseVars, lazyVars, evalVars,
               replayVars>>
allVars   == <<coreVars, auxVars>>

\* ------------------------------------------------------------------- tasks
NoTask == 0
Closer == 0 - 1                \* the task that calls Close()
Adder  == 1                    \* the task that calls AddDestructor()
GoTask(d) == 1 + d             \* the goroutine Close started for ds[i] = d

Scopes == 1..Len(vars)
Dtors  == 1..Len(kind)
Tasks  == 1..Len(epc)

\* ------------------------------------------------- variable frames (rows)
\* A frame is an ordered dict: a function from the names it binds to values.
NullFrame == [k \in {"NULL"} |-> Null]

RowInputs ==
  { [k \in {"k1"} |-> "v1"], [k \in {"k1"} |-> "v2"], [k \in {"k1"} |-> Nil] }

Names == {"NULL", "k1", "k2"}

\* Associative protocol on a dict frame: (value, present).
DictAssociative(row, field) ==
  IF field \in DOMAIN row THEN <<row[field], TRUE>> ELSE <<Nil, FALSE>>

\* A frame that is not a dict: whatever the name, the Associative
\* dispatcher returns for it a value with present = false: its fallback
\* (Null, false), or the default an implementation supplies.
HostRows == { [type |-> "host", default |-> Null],
              [type |-> "host", default |-> "d"] }

\* scope.Associative(subscope, field) for a frame of either sort.
FrameAssociative(row, field) ==
  IF "type" \in DOMAIN row THEN <<row.default, FALSE>>
  ELSE DictAssociative(row, field)

\* if element != nil && default_value == nil { default_value = element }
DefaultOfOldest(element, default_value) ==
  IF element # Nil THEN element ELSE default_value
DefaultOf(element, default_value) ==
  IF element # Nil /\ default_value = Nil THEN element ELSE default_value

RECURSIVE ResolveFrom(_, _, _, _)
ResolveFrom(frames, field, i, default_value) ==
  IF i < 1 THEN <<default_value, default_value # Nil>>
  ELSE LET r       == FrameAssociative(frames[i], field)
           element == r[1]
           pres    == r[2]
       IN IF pres
          THEN <<IF element = Nil THEN Null ELSE element, TRUE>>
          ELSE ResolveFrom(frames, field, i - 1,
                           DefaultOf(element, default_value))

RECURSIVE ResolveOldestFirst(_, _, _)
ResolveOldestFirst(frames, field, i) ==
  IF i > Len(frames) THEN <<Nil, FALSE>>
  ELSE LET r == DictAssociative(frames[i], field)
       IN IF r[2] THEN <<IF r[1] = Nil THEN Null ELSE r[1], TRUE>>
          ELSE ResolveOldestFirst(frames, field, i + 1)

ResolveMutOldest(frames, field) == ResolveOldestFirst(frames, field, 1)

\* Scope.Resolve on the frame list of a scope.
ResolveFrames(frames, field) == ResolveFrom(frames, field, Len(frames), Nil)

Resolve(s, field) == ResolveFrames(varsHeap[vars[s]], field)

\* The row the built-in scope() plugin emits: []Row{scope}, the *Scope.
ScopeRow(s) == [tag |-> "*Scope", scope |-> s]

\* _ScopeAssociative.Applicable(a, b) for a string b: _, a_ok := a.(*Scope).
ScopeApplicable(a) == a.tag = "*Scope"

\* _ScopeAssociative.GetMembers(scope, a): a_scope, ok := a.(Scope) asserts
\* the struct type, not the pointer type; only when it holds are the members
\* of every frame of scope.vars collected in the map `seen`, whose keys
\* are the result (each once, in the order of the map).
ScopeGetMembers(s, a) ==
  IF a.tag = "Scope"
  THEN UNION { DOMAIN varsHeap[vars[s]][i] : i \in 1..Len(varsHeap[vars[s]]) }
  ELSE {}

\* -------------------------------------------------------------- registries
FunctionInputs ==
  { [name |-> "f", impl |-> 1], [name |-> "f", impl |-> 2],
    [name |-> "g", impl |-> 1] }
FunctionArgs ==
  { <<a>> : a \in FunctionInputs }
    \cup { s \in { <<a, b>> : a, b \in {x \in FunctionInputs : x.name = "f"} } :
             s[1] # s[2] }

BuiltinFunctions == <<[name |-> "dict", impl |-> 0]>>
BuiltinPlugins   == <<[name |-> "scope", impl |-> 0]>>

\* The loop of AppendFunctions / AppendPlugins: m[info.Name] = item.
RECURSIVE Register(_, _, _)
Register(m, items, i) ==
  IF i > Len(items) THEN m
  ELSE Register([n \in DOMAIN m \cup {items[i].name} |->
                   IF n = items[i].name THEN items[i].impl ELSE m[n]],
                items, i + 1)

EmptyMap == [n \in {} |-> 0]

\* A registry lookup: (implementation, present).
Lookup(m, name) == IF name \in DOMAIN m THEN <<m[name], TRUE>> ELSE <<0, FALSE>>

\* ------------------------------------------------------------- dispatchers
ProtocolOrder == <<"Bool", "Eq", "Lt", "Add", "Sub", "Mul", "Div",
                   "Membership", "Associative", "Regex", "Iterate">>
Protocols == { ProtocolOrder[i] : i \in 1..Len(ProtocolOrder) }

\* An implementation value: its name and the protocol interfaces it satisfies.
ImplInputs ==
  { [id |-> "hostEqLt",   caps |-> {"Eq", "Lt"}],
    [id |-> "hostIter",   caps |-> {"Iterate"}],
    [id |-> "hostNone",   caps |-> {}] }
ImplArgs ==
  { <<a>> : a \in ImplInputs }
    \cup { s \in { <<a, b>> : a, b \in {x \in ImplInputs :
                                           x.id \in {"hostIter", "hostNone"}} } :
             s[1] # s[2] }

BuiltinImpls ==
  << [id |-> "_ScopeAssociative", caps |-> {"Associative"}],
     [id |-> "_NullEqProtocol",   caps |-> {"Eq"}],
     [id |-> "_SliceIterator",    caps |-> {"Iterate"}] >>

EmptyDispatchers == [p \in Protocols |-> << >>]

\* The type switch of AddProtocolImpl: the first case that matches, 0 if none.
SwitchCaseLast(imp) ==
  IF \E i \in 1..Len(ProtocolOrder) : ProtocolOrder[i] \in imp.caps
  THEN CHOOSE i \in 1..Len(ProtocolOrder) :
         /\ ProtocolOrder[i] \in imp.caps
         /\ \A j \in (i + 1)..Len(ProtocolOrder) : ProtocolOrder[j] \notin imp.caps
  ELSE 0
SwitchCase(imp) ==
  IF \E i \in 1..Len(ProtocolOrder) : ProtocolOrder[i] \in imp.caps
  THEN CHOOSE i \in 1..Len(ProtocolOrder) :
         /\ ProtocolOrder[i] \in imp.caps
         /\ \A j \in 1..(i - 1) : ProtocolOrder[j] \notin imp.caps
  ELSE 0

\* XxxDispatcher.AddImpl: append to the list.
AddImpl(impl, imp) == Append(impl, imp)

\* The loop of AddProtocolImpl over its arguments; a panic leaves the loop.
RECURSIVE AddImplsSkipping(_, _, _)
AddImplsSkipping(d, imps, i) ==
  IF i > Len(imps) THEN [disp |-> d, panic |-> ""]
  ELSE LET c == SwitchCase(imps[i])
       IN IF c = 0 THEN AddImplsSkipping(d, imps, i + 1)
          ELSE AddImplsSkipping([d EXCEPT ![ProtocolOrder[c]] = Append(@, imps[i])],
                                imps, i + 1)

RECURSIVE AddImpls(_, _, _)
AddImpls(d, imps, i) ==
  IF i > Len(imps) THEN [disp |-> d, panic |-> ""]
  ELSE LET c == SwitchCase(imps[i])
       IN IF c = 0 THEN [disp |-> d, panic |-> "Unsupported interface"]
          ELSE AddImpls([d EXCEPT ![ProtocolOrder[c]] = AddImpl(@, imps[i])],
                        imps, i + 1)

\* XxxDispatcher.Copy, for the eleven dispatchers of a scope:
\* append([]T{}, self.impl...) makes fresh lists with the same elements. The
\* result is the heap afterwards and the reference the new scope holds.
DispatcherCopyAliased(heap, ref) == [heap |-> heap, ref |-> ref]
DispatcherCopy(heap, ref) ==
  [heap |-> Append(heap, heap[ref]), ref |-> Len(heap) + 1]

\* Copy(): vars: append([]Row(nil), self.vars...), a fresh list of the same
\* frames.
CopyVarsAliased(heap, ref) == [heap |-> heap, ref |-> ref]
CopyVars(heap, ref) ==
  [heap |-> Append(heap, heap[ref]), ref |-> Len(heap) + 1]

\* NewScope(): vars: []Row{ordereddict.NewDict().Set("NULL", Null{})}.
FreshVarsOfFirst(heap) == [heap |-> heap, ref |-> 1]
FreshVars(heap) ==
  [heap |-> Append(heap, <<NullFrame>>), ref |-> Len(heap) + 1]

\* Copy() and NewScope(): functions: self.functions, plugins: self.plugins;
\* a Go map value is a reference, so the new scope holds the same map.
ShareMapCloned(heap, ref) ==
  [heap |-> Append(heap, heap[ref]), ref |-> Len(heap) + 1]
ShareMap(heap, ref) == [heap |-> heap, ref |-> ref]

\* NewScope(): context: ordereddict.NewDict(), a dict of its own.
EmptyDict == [n \in {} |-> Nil]
FreshContext(heap) == [heap |-> Append(heap, EmptyDict), ref |-> Len(heap) + 1]

\* Copy(): context: self.context, the same dict.
ShareContextCloned(heap, ref) ==
  [heap |-> Append(heap, heap[ref]), ref |-> Len(heap) + 1]
ShareContext(heap, ref) == [heap |-> heap, ref |-> ref]

\* Copy(): self.children = append(self.children, child_scope).
RememberChildNot(kids, c) == kids
RememberChild(kids, c) == Append(kids, c)

\* ------------------------------------------------------------ host values
\* A value (types.Any) as normalize_value tells values apart: by its dynamic
\* type. A dict, a map and a Memberer hold a list of (key, value) items; for
\* a map the list is in the order reflect's MapKeys() hands out the keys.
GoNil           == [tag |-> "nil"]
GoNull          == [tag |-> "Null"]
NilPointer      == [tag |-> "nil pointer"]
Stringer        == [tag |-> "Stringer"]
Str(s)          == [tag |-> "string", s |-> s]
Bytes(s)        == [tag |-> "[]byte", s |-> s]
LazyExpr(v)     == [tag |-> "LazyExpr", val |-> v]
Callable(v)     == [tag |-> "func", val |-> v]
Materializer(v) == [tag |-> "Materializer", val |-> v]
StoredQuery(rs) == [tag |-> "StoredQuery", elems |-> rs]
Slice(vs)       == [tag |-> "slice", elems |-> vs]
Item(k, v)      == [k |-> k, v |-> v]
Dict(items)     == [tag |-> "Dict", items |-> items]
GoMap(items)    == [tag |-> "map", items |-> items]
Memberer(items) == [tag |-> "Memberer", items |-> items]

GoInt(n) == [tag |-> "int", n |-> n]

MapItem(k, v, isString) == [k |-> k, v |-> v, isString |-> isString]

\* A value that refers back to the value holding it (a LazyExpr whose
\* Reduce gives the LazyExpr itself, a slice that is its own element, ...)
\* is written with Self in the place of the reference.
Self == [tag |-> "self"]
Deref(x, holder) == IF x.tag = "self" THEN holder ELSE x

\* n nested LazyExpr around a value.
RECURSIVE LazyChain(_, _)
LazyChain(n, v) == IF n = 0 THEN v ELSE LazyExpr(LazyChain(n - 1, v))

\* An unrecovered run-time panic of the call, and no call made yet.
Panicked == [tag |-> "panic"]
NoResult == [tag |-> "none"]

\* ordereddict Set: a new key goes to the end, a known key keeps its place.
DictSet(d, k, v) ==
  IF \E i \in 1..Len(d.items) : d.items[i].k = k
  THEN Dict([i \in 1..Len(d.items) |->
               IF d.items[i].k = k THEN Item(k, v) ELSE d.items[i]])
  ELSE Dict(Append(d.items, Item(k, v)))

RECURSIVE DictOf(_, _)
DictOf(items, i) ==
  IF i = 0 THEN Dict(<< >>)
  ELSE DictSet(DictOf(items, i - 1), items[i].k, items[i].v)

\* types.Materialize: the rows of the stored query, drained into a slice.
Materialize(t) == Slice(t.elems)

\* The depth beyond which normalize_value gives up.
MaxDepth == 10

\* if depth > 10 { return types.Null{} }
TooDeepLate(depth) == depth > MaxDepth + 1
TooDeep(depth) == depth > MaxDepth

\* normalize_value(ctx, scope, value, depth).
RECURSIVE normalize_value(_, _)
NormalizeAll(vs, depth) ==
  [i \in 1..Len(vs) |-> normalize_value(vs[i], depth)]

NormalizeItems(items, depth) ==
  [i \in 1..Len(items) |->
     Item(items[i].k, normalize_value(items[i].v, depth))]

AnyPanicked(vs) == \E i \in 1..Len(vs) : vs[i].tag = "panic"

NilCheckSkipped(value) == value
NilCheck(value) == IF value.tag = "nil" THEN GoNull ELSE value

normalize_value(value, depth) ==
  IF TooDeep(depth) THEN GoNull
  ELSE
    LET v == NilCheck(value)
    IN CASE v.tag \in {"string", "Null", "Dict", "Stringer"} -> v
         [] v.tag = "[]byte" -> Str(v.s)
         [] v.tag = "LazyExpr" -> normalize_value(Deref(v.val, v), depth + 1)
         [] v.tag = "StoredQuery" -> Materialize(v)
         [] v.tag = "func" -> normalize_value(Deref(v.val, v), depth + 1)
         [] v.tag = "Materializer" -> v.val
         [] v.tag = "Memberer" ->
              LET r == NormalizeItems(
                         [i \in 1..Len(v.items) |->
                            Item(v.items[i].k, Deref(v.items[i].v, v))],
                         depth + 1)
              IN IF AnyPanicked([i \in 1..Len(r) |-> r[i].v]) THEN Panicked
                 ELSE DictOf(r, Len(r))
         [] v.tag \in {"nil pointer", "nil"} -> Panicked
         [] v.tag = "slice" ->
              LET r == NormalizeAll(
                         [i \in 1..Len(v.elems) |-> Deref(v.elems[i], v)],
                         depth + 1)
              IN IF AnyPanicked(r) THEN Panicked ELSE Slice(r)
         [] v.tag = "map" ->
              LET keep == SelectSeq(v.items, LAMBDA it : it.isString)
                  r    == NormalizeItems(keep, depth + 1)
              IN IF AnyPanicked([i \in 1..Len(r) |-> r[i].v]) THEN Panicked
                 ELSE DictOf(r, Len(r))
         [] OTHER -> v

\* RowToDict(ctx, scope, row) for a row that is an ordered dict: GetMembers
\* gives its keys and Associative its values, each present.
RowToDict(r) ==
  LET n == NormalizeItems(r.items, 0)
  IN IF AnyPanicked([i \in 1..Len(n) |-> n[i].v]) THEN Panicked
     ELSE DictOf(n, Len(n))

\* ---------------------------------------------------------------------- LET
LetNames == {"stored", "materialized"}

\* What a name is bound to: nothing, a StoredQuery, or the rows of one.
Unbound      == [kind |-> "none"]
LazyQuery    == [kind |-> "stored"]
Sequence(rs) == [kind |-> "seq", rows |-> rs]

\* Eval of SELECT counter() FROM scope(), drained by the consumer: the
\* scope() plugin gives one row and its column calls counter() once.
EvalCounterQuery(count) ==
  [count |-> count + 1, rows |-> <<Dict(<<Item("counter()", GoInt(count + 1))>>)>>]

\* LET x = SELECT ...: the name is bound to the StoredQuery.
LetStore(count) == [count |-> count, binding |-> LazyQuery]

\* LET x <= SELECT ...: the query is drained once, the rows are bound.
LetMaterializeLazily(count) == [count |-> count, binding |-> LazyQuery]
LetMaterialize(count) ==
  LET r == EvalCounterQuery(count)
  IN [count |-> r.count, binding |-> Sequence(r.rows)]

\* SELECT * FROM x.
SelectFrom(binding, count) ==
  CASE binding.kind = "stored" -> EvalCounterQuery(count)
    [] binding.kind = "seq" -> [count |-> count, rows |-> binding.rows]
    [] OTHER -> [count |-> count, rows |-> << >>]

\* ------------------------------------------------------- Parse and ToString
\* Tokens of the expression grammar. Reserved words are case-insensitive;
\* a number is decimal or hex.
AtomTokens   == {"1", "0x1", "x"}
BinaryTokens == {"OR", "AND", "and", "=", "+", "-", "*"}

\* The operator a binary token stands for, and its precedence level.
OpOf(tok) == IF tok = "and" THEN "AND" ELSE tok

Level(op) ==
  CASE op = "OR" -> 1
    [] op = "AND" -> 2
    [] op = "NOT" -> 3
    [] op = "=" -> 4
    [] op \in {"+", "-"} -> 5
    [] op = "*" -> 6
    [] op = "neg" -> 7
    [] OTHER -> 9

\* AST nodes: [op: "num", n], [op: "id", name], [op: "NOT" or "neg", a]
\* and [op, l, r]. A number token is kept by its value.
Atom(tok) ==
  IF tok = "x" THEN [op |-> "id", name |-> "x"] ELSE [op |-> "num", n |-> 1]

ParseFail       == [ok |-> FALSE]
ParseOk(n, rest) == [ok |-> TRUE, ast |-> n, rest |-> rest]

\* An expression of level p or higher at the head of toks.
RECURSIVE ParseExpr(_, _)
RECURSIVE ParseInfix(_, _, _)
ParseExpr(toks, p) ==
  IF toks = << >> THEN ParseFail
  ELSE
    LET h     == Head(toks)
        rest  == Tail(toks)
        first ==
          CASE h \in AtomTokens -> ParseOk(Atom(h), rest)
            [] h = "NOT" ->
                 IF p > Level("NOT") THEN ParseFail
                 ELSE LET r == ParseExpr(rest, Level("NOT"))
                      IN IF r.ok THEN ParseOk([op |-> "NOT", a |-> r.ast], r.rest)
                         ELSE ParseFail
            [] h = "-" ->
                 LET r == ParseExpr(rest, Level("neg"))
                 IN IF r.ok THEN ParseOk([op |-> "neg", a |-> r.ast], r.rest)
                    ELSE ParseFail
            [] h = "(" ->
                 LET r == ParseExpr(rest, 1)
                 IN IF r.ok /\ r.rest # << >> /\ Head(r.rest) = ")"
                    THEN ParseOk(r.ast, Tail(r.rest))
                    ELSE ParseFail
            [] OTHER -> ParseFail
    IN IF first.ok THEN ParseInfix(first.ast, first.rest, p) ELSE ParseFail

\* The binary operators of level p or higher that follow left.
ParseInfix(left, toks, p) ==
  IF toks = << >> THEN ParseOk(left, toks)
  ELSE IF Head(toks) \notin BinaryTokens THEN ParseOk(left, toks)
  ELSE IF Level(OpOf(Head(toks))) < p THEN ParseOk(left, toks)
  ELSE LET op == OpOf(Head(toks))
           r  == ParseExpr(Tail(toks), Level(op) + 1)
       IN IF r.ok
          THEN ParseInfix([op |-> op, l |-> left, r |-> r.ast], r.rest, p)
          ELSE ParseFail

\* Parse(text): the whole text is one expression.
Parse(toks) ==
  LET r == ParseExpr(toks, 1)
  IN IF r.ok /\ r.rest = << >> THEN [ok |-> TRUE, ast |-> r.ast]
     ELSE ParseFail

\* ToString of a node where an expression of level p or higher is needed:
\* canonical spelling, parentheses only where the precedence requires.
RECURSIVE ToStringFlat(_, _)
ToStringFlat(n, p) ==
  CASE n.op = "num" -> <<"1">>
    [] n.op = "id" -> <<n.name>>
    [] n.op = "NOT" -> <<"NOT">> \o ToStringFlat(n.a, p)
    [] n.op = "neg" -> <<"-">> \o ToStringFlat(n.a, p)
    [] OTHER -> ToStringFlat(n.l, p) \o <<n.op>> \o ToStringFlat(n.r, p)

RECURSIVE ToStringAt(_, _)
ToStringAt(n, p) ==
  LET body ==
        CASE n.op = "num" -> <<"1">>
          [] n.op = "id" -> <<n.name>>
          [] n.op = "NOT" -> <<"NOT">> \o ToStringAt(n.a, Level("NOT"))
          [] n.op = "neg" -> <<"-">> \o ToStringAt(n.a, Level("neg"))
          [] OTHER -> ToStringAt(n.l, Level(n.op)) \o <<n.op>>
                        \o ToStringAt(n.r, Level(n.op) + 1)
  IN IF Level(n.op) < p THEN <<"(">> \o body \o <<")">> ELSE body

ToStringVQL(n) == ToStringAt(n, 1)

\* ------------------------------------------------------------------- Replay
\* A stored query or stored expression: its name, its parameters (a Go
\* slice: nil or a list) and its body, the AST of the text after `=`.
NilParams     == [isNil |-> TRUE, list |-> << >>]
Params(names) == [isNil |-> FALSE, list |-> names]
Stored(n, ps, body) == [name |-> n, parameters |-> ps, body |-> body]

\* The backquote of the format "LET `%v` = %s" as a token.
BQ == "backquote"

\* strings.Join(self.parameters, ", ").
RECURSIVE Join(_)
Join(names) ==
  IF Len(names) <= 1 THEN names
  ELSE <<names[1], ",">> \o Join(Tail(names))

\* json.Marshal of a string and json.Unmarshal into a string: the text
\* between double quotes; data that is not a quoted string is an error.
JsonMarshal(text) == <<"\"">> \o text \o <<"\"">>
JsonUnmarshal(data) ==
  IF Len(data) >= 2 /\ data[1] = "\"" /\ data[Len(data)] = "\""
  THEN [ok |-> TRUE, text |-> SubSeq(data, 2, Len(data) - 1)]
  ELSE [ok |-> FALSE]

\* _StoredQuery.Marshal and StoredExpression.Marshal:
\* LET `name` = body, or LET `name`(p1, p2) = body when parameters != nil.
MarshalBare(st) ==
  [type |-> "Replay",
   data |-> JsonMarshal(<<"LET", BQ, st.name, BQ, "=">>
                          \o ToStringVQL(st.body))]
Marshal(st) ==
  [type |-> "Replay",
   data |-> JsonMarshal(
              <<"LET", BQ, st.name, BQ>>
                \o (IF st.parameters.isNil THEN << >>
                    ELSE <<"(">> \o Join(st.parameters.list) \o <<")">>)
                \o <<"=">> \o ToStringVQL(st.body))]

\* The parameter list after "(": identifiers separated by commas, up to ")".
RECURSIVE ParseParams(_, _)
ParseParams(toks, got) ==
  IF Len(toks) < 2 \/ toks[1] \in {"(", ")", ",", "=", BQ} THEN ParseFail
  ELSE IF toks[2] = ")" THEN ParseOk(Append(got, toks[1]), SubSeq(toks, 3, Len(toks)))
  ELSE IF toks[2] = "," THEN ParseParams(SubSeq(toks, 3, Len(toks)), Append(got, toks[1]))
  ELSE ParseFail

\* Parse of a LET statement: LET `name` [ (params) ] = expression.
ParseLet(toks) ==
  IF Len(toks) < 6 \/ toks[1] # "LET" \/ toks[2] # BQ \/ toks[4] # BQ
  THEN ParseFail
  ELSE LET rest == SubSeq(toks, 5, Len(toks))
           ps   == IF rest[1] = "("
                   THEN ParseParams(Tail(rest), << >>)
                   ELSE ParseOk(<< >>, rest)
       IN IF ~ps.ok \/ ps.rest = << >> THEN ParseFail
          ELSE IF Head(ps.rest) # "=" THEN ParseFail
          ELSE LET e == Parse(Tail(ps.rest))
               IN IF ~e.ok THEN ParseFail
                  ELSE [ok |-> TRUE,
                        ast |-> Stored(toks[3],
                                       IF rest[1] = "(" THEN Params(ps.ast)
                                       ELSE NilParams,
                                       e.ast)]

\* ReplayUnmarshaller.Unmarshal(unmarshaller, scope, item): the error it
\* returns ("" for nil), what the scope binds afterwards and how many
\* statements were evaluated; Eval of a LET statement binds its name.
Unmarshal(item, bound, evals) ==
  LET q == JsonUnmarshal(item.data)
  IN IF ~q.ok THEN [err |-> "json", bound |-> bound, evals |-> evals]
     ELSE LET vql == ParseLet(q.text)
          IN IF ~vql.ok THEN [err |-> "parse", bound |-> bound, evals |-> evals]
             ELSE [err |-> "", bound |-> vql.ast, evals |-> evals + 1]

\* The definitions the host makes, and the items it may hand to Unmarshal
\* that no Marshal produced.
ReplayNames  == {"n", "m"}
ReplayParams == {NilParams, Params(<<"p">>), Params(<<"p", "q">>)}
ReplayBodies == {<<"x">>, <<"0x1", "and", "x">>,
                 <<"(", "x", "+", "1", ")", "*", "x">>}
ForeignItems ==
  { [type |-> "Replay", data |-> <<"LET">>],
    [type |-> "Replay", data |-> JsonMarshal(<<"LET", BQ, "n", BQ, "=">>)],
    [type |-> "Replay",
     data |-> JsonMarshal(<<"LET", BQ, "n", BQ, "(", "p", "=", "x">>)] }

\* ----------------------------------------------------------------- lazy row
\* The foo column of the rows a source plugin gives (test() gives 0, 2, 4).
FooValues == {0, 2, 4}

RECURSIVE SeqsUpTo(_, _)
SeqsUpTo(S, n) ==
  IF n = 0 THEN { << >> }
  ELSE SeqsUpTo(S, n - 1)
         \cup { Append(q, x) : q \in SeqsUpTo(S, n - 1), x \in S }

\* WHERE foo = w, reduced against the row and taken through Bool.
WherePasses(foo, w) == foo = w

\* The calls of panic() the evaluator makes while it handles one source
\* row: none, the columns of an emitted row are unreduced LazyExprs.
ProjectionCallsEager(foo, passes) == <<foo>>
ProjectionCalls(foo, passes) == << >>

\* PanicFunction.Call: panics if the value equals the column.
PanicFunctionPanics(column, value) == value = column

\* --------------------------------------------------------------- arithmetic
GoBool(b) == [tag |-> "bool", b |-> b]

\* scope.Eq(a, b): Null equals Null only, numbers compare by value, a
\* number equals a boolean when its truth value does.
Eq(a, b) ==
  CASE a.tag = "Null" \/ b.tag = "Null" -> a.tag = b.tag
    [] a.tag = "int" /\ b.tag = "int" -> a.n = b.n
    [] a.tag = "int" /\ b.tag = "bool" -> (a.n # 0) = b.b
    [] a.tag = "bool" /\ b.tag = "int" -> (b.n # 0) = a.b
    [] OTHER -> a = b

\* What a division by zero reduces to: any value with which
\* TestEvalWhereClause accepts the clause {"10 / 0", false}, that is with
\* scope.Eq(value, test.result).
DivByZeroOutcomes ==
  { v \in {GoNull, GoBool(FALSE), GoInt(0)} : Eq(v, GoBool(FALSE)) }

\* The values a op b can reduce to.
Arithmetic(op, a, b) ==
  CASE a.tag = "int" /\ b.tag = "int" ->
         ( CASE op = "+" -> {GoInt(a.n + b.n)}
             [] op = "-" -> {GoInt(a.n - b.n)}
             [] op = "*" -> {GoInt(a.n * b.n)}
             [] op = "/" ->
                  IF b.n = 0 THEN DivByZeroOutcomes
                  ELSE IF a.n % b.n = 0 THEN {GoInt(a.n \div b.n)}
                  ELSE {[tag |-> "float", num |-> a.n, den |-> b.n]} )
    [] a.tag = "string" /\ b.tag = "string" /\ op = "+" -> {Str(a.s \o b.s)}
    [] OTHER -> {GoNull}

\* The operands and operators of the clauses.
Operands  == {GoInt(0), GoInt(1), GoInt(10), Str("foo"), Str("bar"), GoNull}
Operators == {"+", "-", "*", "/"}

\* ------------------------------------------------------------ initial state
\* The state after the factory NewScope() has built one scope.
Init ==
  /\ vars = <<1>> /\ functions = <<1>> /\ plugins = <<1>>
  /\ dispatchers = <<1>>
  /\ children = << << >> >> /\ fn = << << >> >>
  /\ is_destroyed = <<FALSE>> /\ mutex = <<NoTask>> /\ from = <<0>> /\ how = <<"factory">>
  /\ varsHeap = << <<NullFrame>> >>
  /\ funcHeap = << Register(EmptyMap, BuiltinFunctions, 1) >>
  /\ plugHeap = << Register(EmptyMap, BuiltinPlugins, 1) >>
  /\ dispHeap = << AddImpls(EmptyDispatchers, BuiltinImpls, 1).disp >>
  /\ context = <<1>> /\ ctxHeap = <<EmptyDict>>
  /\ calls = 0 /\ panicMsg = ""
  /\ kind = << >> /\ owner = << >> /\ nestOf = << >>
  /\ invoked = << >> /\ ranIn = << >>
  /\ stack = << >> /\ cellDs = << >> /\ cellI = << >>
  /\ epc = <<"idle">> /\ erun = <<0>> /\ ecell = <<0>>
  /\ cancelled = <<FALSE>> /\ timedout = <<FALSE>>
  /\ crashed = FALSE
  /\ inRow = Dict(<< >>) /\ outRow = NoResult
  /\ itImpl = << >> /\ itArg = NoResult /\ itPath = ""
  /\ itConsulted = << >> /\ itInvoked = 0 /\ itChan = "none"
  /\ itToSend = << >> /\ itDelivered = << >> /\ itCtxDone = FALSE
  /\ CounterFunctionCount = 0
  /\ letVars = [x \in LetNames |-> Unbound]
  /\ letRows = << >>
  /\ qText = << >> /\ qParsed = NoResult
  /\ qString = << >> /\ qReparsed = NoResult
  /\ lrQuery = NoResult /\ lrPos = 0 /\ lrOut = << >> /\ lrRead = 0
  /\ panicCalls = << >> /\ lrPanicked = FALSE
  /\ evClause = NoResult /\ evValue = NoResult
  /\ rpStored = NoResult /\ rpItem = NoResult
  /\ rpErr = "none" /\ rpBound = NoResult /\ rpEvals = 0

\* ---------------------------------------------------------- scope creation
\* The factory NewScope(): a scope with its own registries and dispatchers.
FactoryNewScope ==
  /\ ~crashed
  /\ LET v == FreshVars(varsHeap)
     IN /\ varsHeap' = v.heap
        /\ vars' = Append(vars, v.ref)
  /\ funcHeap' = Append(funcHeap, Register(EmptyMap, BuiltinFunctions, 1))
  /\ functions' = Append(functions, Len(funcHeap) + 1)
  /\ plugHeap' = Append(plugHeap, Register(EmptyMap, BuiltinPlugins, 1))
  /\ plugins' = Append(plugins, Len(plugHeap) + 1)
  /\ dispHeap' = Append(dispHeap, AddImpls(EmptyDispatchers, BuiltinImpls, 1).disp)
  /\ dispatchers' = Append(dispatchers, Len(dispHeap) + 1)
  /\ LET c == FreshContext(ctxHeap)
     IN ctxHeap' = c.heap /\ context' = Append(context, c.ref)
  /\ children' = Append(children, << >>)
  /\ fn' = Append(fn, << >>)
  /\ is_destroyed' = Append(is_destroyed, FALSE)
  /\ mutex' = Append(mutex, NoTask)
  /\ from' = Append(from, 0)
  /\ how' = Append(how, "factory")
  /\ UNCHANGED <<auxVars, hostVars, dtorVars, closeVars, taskVars, crashed>>

\* Scope.NewScope(): shares the registries, copies the dispatchers, starts
\* from a fresh frame; the receiver does not remember the new scope.
NewScopeMethod(s) ==
  /\ ~crashed
  /\ mutex[s] = NoTask
  /\ LET v == FreshVars(varsHeap)
         f == ShareMap(funcHeap, functions[s])
         p == ShareMap(plugHeap, plugins[s])
         d == DispatcherCopy(dispHeap, dispatchers[s])
         c == FreshContext(ctxHeap)
     IN /\ varsHeap' = v.heap /\ vars' = Append(vars, v.ref)
        /\ ctxHeap' = c.heap /\ context' = Append(context, c.ref)
        /\ funcHeap' = f.heap /\ functions' = Append(functions, f.ref)
        /\ plugHeap' = p.heap /\ plugins' = Append(plugins, p.ref)
        /\ dispHeap' = d.heap /\ dispatchers' = Append(dispatchers, d.ref)
  /\ children' = Append(children, << >>)
  /\ fn' = Append(fn, << >>)
  /\ is_destroyed' = Append(is_destroyed, FALSE)
  /\ mutex' = Append(mutex, NoTask)
  /\ from' = Append(from, s)
  /\ how' = Append(how, "new")
  /\ UNCHANGED <<auxVars, hostVars, dtorVars, closeVars, taskVars, crashed>>

\* Scope.Copy(): a child that shares the registries, holds a copy of the
\* variable stack and of each dispatcher, and is remembered by the receiver.
Copy(s) ==
  /\ ~crashed
  /\ mutex[s] = NoTask
  /\ LET v == CopyVars(varsHeap, vars[s])
         f == ShareMap(funcHeap, functions[s])
         p == ShareMap(plugHeap, plugins[s])
         d == DispatcherCopy(dispHeap, dispatchers[s])
         c == ShareContext(ctxHeap, context[s])
     IN /\ varsHeap' = v.heap /\ vars' = Append(vars, v.ref)
        /\ ctxHeap' = c.heap /\ context' = Append(context, c.ref)
        /\ funcHeap' = f.heap /\ functions' = Append(functions, f.ref)
        /\ plugHeap' = p.heap /\ plugins' = Append(plugins, p.ref)
        /\ dispHeap' = d.heap /\ dispatchers' = Append(dispatchers, d.ref)
  /\ children' = Append([children EXCEPT ![s] = RememberChild(@, Len(vars) + 1)],
                        << >>)
  /\ fn' = Append(fn, << >>)
  /\ is_destroyed' = Append(is_destroyed, FALSE)
  /\ mutex' = Append(mutex, NoTask)
  /\ from' = Append(from, s)
  /\ how' = Append(how, "copy")
  /\ UNCHANGED <<auxVars, hostVars, dtorVars, closeVars, taskVars, crashed>>

\* ------------------------------------------------- variables and registries
\* Scope.AppendVars(row): self.vars = append(self.vars, row).
AppendVars(s, row) ==
  /\ ~crashed /\ mutex[s] = NoTask
  /\ varsHeap' = [varsHeap EXCEPT ![vars[s]] = Append(@, row)]
  /\ calls' = calls + 1
  /\ UNCHANGED <<auxVars, ctxVars, scopeVars, funcHeap, plugHeap, dispHeap, panicMsg,
                 dtorVars, closeVars, taskVars, crashed>>

\* Scope.GetContext(name): the value set under name, nil if there is none.
GetContext(s, name) ==
  IF name \in DOMAIN ctxHeap[context[s]] THEN ctxHeap[context[s]][name] ELSE Nil


\* Scope.SetContext(name, value): self.context.Set(name, value).
SetContext(s, name, value) ==
  /\ ~crashed /\ mutex[s] = NoTask
  /\ ctxHeap' = [ctxHeap EXCEPT ![context[s]] =
                   [n \in DOMAIN @ \cup {name} |->
                      IF n = name THEN value ELSE @[n]]]
  /\ calls' = calls + 1
  /\ UNCHANGED <<auxVars, scopeVars, context, heapVars, panicMsg,
                 dtorVars, closeVars, taskVars, crashed>>

\* Scope.ClearContext(): a new empty context, and one more {NULL: Null}
\* frame on the variable stack.
ClearContext(s) ==
  /\ ~crashed /\ mutex[s] = NoTask
  /\ LET c == FreshContext(ctxHeap)
     IN /\ ctxHeap' = c.heap
        /\ context' = [context EXCEPT ![s] = c.ref]
  /\ varsHeap' = [varsHeap EXCEPT ![vars[s]] = Append(@, NullFrame)]
  /\ calls' = calls + 1
  /\ UNCHANGED <<auxVars, scopeVars, funcHeap, plugHeap, dispHeap, panicMsg,
                 dtorVars, closeVars, taskVars, crashed>>

\* ------------------------------------------------------------------ Iterate
\* The implementations the host registers with the dispatcher, and what
\* their Applicable answers.
IterImpls == {"sliceIter", "anyIter"}

Applicable(impl, a) ==
  CASE impl = "sliceIter" -> a.tag = "slice"
    [] impl = "anyIter"   -> TRUE

\* The row the fallback makes of a value.
ValueRow(a) == Dict(<<Item("_value", a)>>)

\* The rows the stream of impl.Iterate(ctx, scope, a) carries.
ImplRows(impl, a) ==
  CASE impl = "sliceIter" ->
         [i \in 1..Len(a.elems) |->
            IF a.elems[i].tag = "Dict" THEN a.elems[i]
            ELSE ValueRow(a.elems[i])]
    [] impl = "anyIter" -> <<Dict(<<Item("any", a)>>)>>

is_null(a) == a.tag = "Null"

\* case types.LazyExpr: scope.Iterate(ctx, t.Reduce()).
RECURSIVE Reduced(_)
Reduced(a) == IF a.tag = "LazyExpr" THEN Reduced(a.val) ELSE a

\* for i, impl := range self.impl: the index of the implementation the
\* walk from i stops at (0 if it reaches the end of the list).
RECURSIVE ImplWalkLast(_, _, _)
ImplWalkLast(impls, a, i) ==
  IF i > Len(impls) THEN 0
  ELSE LET later == ImplWalkLast(impls, a, i + 1)
       IN IF later # 0 THEN later
          ELSE IF Applicable(impls[i], a) THEN i ELSE 0

RECURSIVE ImplWalk(_, _, _)
ImplWalk(impls, a, i) ==
  IF i > Len(impls) THEN 0
  ELSE IF Applicable(impls[i], a) THEN i
  ELSE ImplWalk(impls, a, i + 1)

\* The implementations whose Applicable the walk has called.
Consulted(impls, hit) ==
  [i \in 1..(IF hit = 0 THEN Len(impls) ELSE hit) |-> i]

\* Which return statement of Iterate the (reduced) value reaches.
IteratePath(impls, a) ==
  CASE a.tag = "StoredQuery" -> "query"
    [] a.tag = "Dict" -> "dict"
    [] OTHER -> IF ImplWalk(impls, a, 1) # 0 THEN "impl" ELSE "fallback"

\* The rows of the fallback goroutine.
FallbackRowsBare(a) == IF is_null(a) THEN << >> ELSE <<a>>
FallbackRows(a) == IF is_null(a) THEN << >> ELSE <<ValueRow(a)>>

\* The rows of t.Eval(ctx, scope).
StoredQueryEval(t) == t.elems

\* The rows the producer behind the returned channel has to send.
IterateRows(impls, a) ==
  CASE IteratePath(impls, a) = "query" -> StoredQueryEval(a)
    [] IteratePath(impls, a) = "dict" -> <<a>>
    [] IteratePath(impls, a) = "impl" ->
         ImplRows(impls[ImplWalk(impls, a, 1)], a)
    [] OTHER -> FallbackRows(a)

\* The producer sends inside a select that also waits for ctx.Done().
SelectsOnDone(path) == path = "dict"

\* The producers of implementations and stored queries do the same.
HostHonoursDone(path) == path \in {"impl", "query"}

\* The values the host passes to Iterate.
IterValues ==
  { GoNull, Str("a"), Slice(<<Str("a"), Dict(<<Item("k", Str("b"))>>)>>),
    Dict(<<Item("k", Str("a"))>>), LazyExpr(Str("a")), LazyExpr(GoNull),
    StoredQuery(<<Dict(<<Item("k", Str("a"))>>)>>) }

\* The values the host puts into the columns of a row.
NvValues ==
  { GoNil, GoNull, Str("a"), Bytes("a"), NilPointer, Stringer,
    LazyExpr(GoNil), LazyExpr(LazyExpr(GoNil)), Callable(GoNil),
    Slice(<<GoNil, Str("a")>>), GoMap(<<MapItem("k", GoNil, TRUE)>>),
    Dict(<<Item("k", GoNil)>>), Memberer(<<Item("m", GoNil)>>),
    Materializer(Str("a")), StoredQuery(<< >>),
    Dict(<<Item("k", LazyExpr(Str("a")))>>),
    LazyChain(MaxDepth, Str("a")), LazyChain(MaxDepth + 1, Str("a")),
    LazyExpr(Self), Callable(Self), Slice(<<Self>>),
    Memberer(<<Item("m", Self)>>) }


\* The host sets a column of the row: row.Set(k, v).
RowSet(k, v) ==
  /\ inRow' = DictSet(inRow, k, v)
  /\ outRow' = NoResult
  /\ UNCHANGED <<coreVars, replayVars, iterVars, letState, parseVars, lazyVars, evalVars>>

\* The host calls RowToDict on the row.
RowToDictCall ==
  /\ outRow = NoResult
  /\ outRow' = RowToDict(inRow)
  /\ UNCHANGED <<coreVars, replayVars, iterVars, letState, parseVars, lazyVars, evalVars,
                 inRow>>

\* IterateDispatcher.AddImpl(elements...), before the dispatcher is used.
IterAddImpl(elements) ==
  /\ itArg = NoResult
  /\ itImpl' = itImpl \o elements
  /\ UNCHANGED <<coreVars, replayVars, normVars, letState, parseVars, lazyVars, evalVars,
                 itArg, itPath, itConsulted, itInvoked,
                 itChan, itToSend, itDelivered, itCtxDone>>

\* IterateDispatcher.Iterate(ctx, scope, a) up to its return: the type
\* switch, the walk over the implementations, the channel and its producer.
Iterate(a) ==
  /\ itArg = NoResult
  /\ itArg' = a
  /\ LET r   == Reduced(a)
         hit == ImplWalk(itImpl, r, 1)
         wlk == IteratePath(itImpl, r) \in {"impl", "fallback"}
     IN /\ itPath' = IteratePath(itImpl, r)
        /\ itConsulted' = IF wlk THEN Consulted(itImpl, hit) ELSE << >>
        /\ itInvoked' = IF wlk THEN hit ELSE 0
        /\ itToSend' = IterateRows(itImpl, r)
  /\ itChan' = "open"
  /\ itDelivered' = << >>
  /\ itCtxDone' = FALSE
  /\ UNCHANGED <<coreVars, replayVars, normVars, letState, parseVars, lazyVars, evalVars,
                 itImpl>>

\* The consumer receives the row the producer is sending.
IterReceive ==
  /\ itChan = "open" /\ itToSend # << >>
  /\ itDelivered' = Append(itDelivered, Head(itToSend))
  /\ itToSend' = Tail(itToSend)
  /\ UNCHANGED <<coreVars, replayVars, normVars, letState, parseVars, lazyVars, evalVars,
                 itImpl, itArg, itPath, itConsulted,
                 itInvoked, itChan, itCtxDone>>

\* The producer's select takes case <-ctx.Done(): return, close(output_chan).
IterProducerCancelled ==
  /\ itChan = "open" /\ itToSend # << >> /\ itCtxDone
  /\ SelectsOnDone(itPath) \/ HostHonoursDone(itPath)
  /\ itChan' = "closed"
  /\ itToSend' = << >>
  /\ UNCHANGED <<coreVars, replayVars, normVars, letState, parseVars, lazyVars, evalVars,
                 itImpl, itArg, itPath, itConsulted,
                 itInvoked, itDelivered, itCtxDone>>

\* The producer has nothing left to send: defer close(output_chan).
IterProducerClose ==
  /\ itChan = "open" /\ itToSend = << >>
  /\ itChan' = "closed"
  /\ UNCHANGED <<coreVars, replayVars, normVars, letState, parseVars, lazyVars, evalVars,
                 itImpl, itArg, itPath, itConsulted,
                 itInvoked, itToSend, itDelivered, itCtxDone>>

\* The caller cancels the context it passed to Iterate.
IterCancel ==
  /\ itArg # NoResult /\ ~itCtxDone
  /\ itCtxDone' = TRUE
  /\ UNCHANGED <<coreVars, replayVars, normVars, letState, parseVars, lazyVars, evalVars,
                 itImpl, itArg, itPath, itConsulted,
                 itInvoked, itChan, itToSend, itDelivered>>

\* The consumer has seen the channel closed and drops it.
IterEOF ==
  /\ itChan = "closed"
  /\ itArg' = NoResult /\ itPath' = ""
  /\ itConsulted' = << >> /\ itInvoked' = 0 /\ itChan' = "none"
  /\ itToSend' = << >> /\ itDelivered' = << >> /\ itCtxDone' = FALSE
  /\ UNCHANGED <<coreVars, replayVars, normVars, letState, parseVars, lazyVars, evalVars,
                 itImpl>>

\* The host writes or extends the text of the expression.
TextEdit(new) ==
  /\ qText' = new
  /\ qParsed' = NoResult /\ qString' = << >> /\ qReparsed' = NoResult
  /\ UNCHANGED <<coreVars, replayVars, normVars, iterVars, letState, lazyVars, evalVars>>

\* vql := Parse(text); parsed_vql := Parse(vql.ToStringVQL(scope)).
ParseRoundTrip ==
  /\ qParsed = NoResult
  /\ qParsed' = Parse(qText)
  /\ IF Parse(qText).ok
     THEN /\ qString' = ToStringVQL(Parse(qText).ast)
          /\ qReparsed' = Parse(ToStringVQL(Parse(qText).ast))
     ELSE qString' = << >> /\ qReparsed' = NoResult
  /\ UNCHANGED <<coreVars, replayVars, normVars, iterVars, letState, lazyVars, evalVars,
                 qText>>

\* LET name(params) = body evaluated in the scope that is marshalled.
ReplayDefine(n, ps, text) ==
  /\ rpStored = NoResult
  /\ Parse(text).ok
  /\ rpStored' = Stored(n, ps, Parse(text).ast)
  /\ UNCHANGED <<coreVars, normVars, iterVars, letState, parseVars, lazyVars,
                 evalVars, rpItem, rpErr, rpBound, rpEvals>>

\* item, err := stored.Marshal(scope).
ReplayMarshal ==
  /\ rpStored # NoResult /\ rpItem = NoResult
  /\ rpItem' = Marshal(rpStored)
  /\ UNCHANGED <<coreVars, normVars, iterVars, letState, parseVars, lazyVars,
                 evalVars, rpStored, rpErr, rpBound, rpEvals>>

\* The host takes an item from elsewhere.
ReplayForeign(item) ==
  /\ rpItem = NoResult
  /\ rpItem' = item
  /\ UNCHANGED <<coreVars, normVars, iterVars, letState, parseVars, lazyVars,
                 evalVars, rpStored, rpErr, rpBound, rpEvals>>

\* ReplayUnmarshaller{}.Unmarshal(unmarshaller, target, item).
ReplayUnmarshal ==
  /\ rpItem # NoResult /\ rpErr = "none"
  /\ LET r == Unmarshal(rpItem, rpBound, rpEvals)
     IN rpErr' = r.err /\ rpBound' = r.bound /\ rpEvals' = r.evals
  /\ UNCHANGED <<coreVars, normVars, iterVars, letState, parseVars, lazyVars,
                 evalVars, rpStored, rpItem>>

\* The query starts: the source plugin is invoked and gives its rows.
LazySelect(source, w, v) ==
  /\ lrQuery = NoResult
  /\ lrQuery' = [source |-> source, where |-> w, value |-> v]
  /\ lrPos' = 0 /\ lrOut' = << >> /\ lrRead' = 0
  /\ panicCalls' = << >> /\ lrPanicked' = FALSE
  /\ UNCHANGED <<coreVars, replayVars, normVars, iterVars, letState, parseVars, evalVars>>

\* The evaluator takes the next source row: frame, WHERE, projection.
LazyRowStep ==
  /\ lrQuery # NoResult /\ ~lrPanicked
  /\ lrPos < Len(lrQuery.source)
  /\ LET foo    == lrQuery.source[lrPos + 1]
         passes == WherePasses(foo, lrQuery.where)
         made   == ProjectionCalls(foo, passes)
     IN /\ lrPos' = lrPos + 1
        /\ lrOut' = IF passes THEN Append(lrOut, foo) ELSE lrOut
        /\ panicCalls' = panicCalls \o made
        /\ lrPanicked' =
             \E i \in 1..Len(made) :
               PanicFunctionPanics(made[i], lrQuery.value)
  /\ UNCHANGED <<coreVars, replayVars, normVars, iterVars, letState, parseVars, evalVars,
                 lrQuery, lrRead>>

\* The consumer reads the columns of the next emitted row: the LazyExpr
\* of panic(column=foo, value=v) is reduced.
LazyReadRow ==
  /\ lrQuery # NoResult /\ ~lrPanicked
  /\ lrRead < Len(lrOut)
  /\ LET foo == lrOut[lrRead + 1]
     IN /\ panicCalls' = Append(panicCalls, foo)
        /\ lrPanicked' = PanicFunctionPanics(foo, lrQuery.value)
  /\ lrRead' = lrRead + 1
  /\ UNCHANGED <<coreVars, replayVars, normVars, iterVars, letState, parseVars, evalVars,
                 lrQuery, lrPos, lrOut>>

\* The query is over: every row was taken and read.
LazyDone ==
  /\ lrQuery # NoResult /\ ~lrPanicked
  /\ lrPos = Len(lrQuery.source) /\ lrRead = Len(lrOut)
  /\ lrQuery' = NoResult
  /\ lrPos' = 0 /\ lrOut' = << >> /\ lrRead' = 0
  /\ panicCalls' = << >>
  /\ UNCHANGED <<coreVars, replayVars, normVars, iterVars, letState, parseVars, evalVars,
                 lrPanicked>>

\* value := vql.Query.Where.Reduce(ctx, scope) for the clause a op b.
EvalWhereClause(op, a, b) ==
  /\ evClause' = [op |-> op, a |-> a, b |-> b]
  /\ evValue' \in Arithmetic(op, a, b)
  /\ UNCHANGED <<coreVars, replayVars, normVars, iterVars, letState, parseVars, lazyVars>>

\* run_query("SELECT counter() FROM scope()").
RunSelectCounter ==
  /\ LET r == EvalCounterQuery(CounterFunctionCount)
     IN CounterFunctionCount' = r.count /\ letRows' = r.rows
  /\ UNCHANGED <<coreVars, replayVars, normVars, iterVars, parseVars, lazyVars, evalVars,
                 letVars>>

\* run_query("LET x = SELECT counter() FROM scope()").
RunLet(x) ==
  /\ LET r == LetStore(CounterFunctionCount)
     IN /\ CounterFunctionCount' = r.count
        /\ letVars' = [letVars EXCEPT ![x] = r.binding]
  /\ letRows' = << >>
  /\ UNCHANGED <<coreVars, replayVars, normVars, iterVars, parseVars, lazyVars, evalVars>>

\* run_query("LET x <= SELECT counter() FROM scope()").
RunLetMaterialized(x) ==
  /\ LET r == LetMaterialize(CounterFunctionCount)
     IN /\ CounterFunctionCount' = r.count
        /\ letVars' = [letVars EXCEPT ![x] = r.binding]
  /\ letRows' = << >>
  /\ UNCHANGED <<coreVars, replayVars, normVars, iterVars, parseVars, lazyVars, evalVars>>

\* run_query("SELECT * FROM x").
RunSelectFrom(x) ==
  /\ LET r == SelectFrom(letVars[x], CounterFunctionCount)
     IN CounterFunctionCount' = r.count /\ letRows' = r.rows
  /\ UNCHANGED <<coreVars, replayVars, normVars, iterVars, parseVars, lazyVars, evalVars,
                 letVars>>

\* Scope.AppendFunctions(functions...).
AppendFunctions(s, items) ==
  /\ ~crashed /\ mutex[s] = NoTask
  /\ funcHeap' = [funcHeap EXCEPT ![functions[s]] = Register(@, items, 1)]
  /\ calls' = calls + 1
  /\ UNCHANGED <<auxVars, ctxVars, scopeVars, varsHeap, plugHeap, dispHeap, panicMsg,
                 dtorVars, closeVars, taskVars, crashed>>

\* Scope.AppendPlugins(plugins...).
AppendPlugins(s, items) ==
  /\ ~crashed /\ mutex[s] = NoTask
  /\ plugHeap' = [plugHeap EXCEPT ![plugins[s]] = Register(@, items, 1)]
  /\ calls' = calls + 1
  /\ UNCHANGED <<auxVars, ctxVars, scopeVars, varsHeap, funcHeap, dispHeap, panicMsg,
                 dtorVars, closeVars, taskVars, crashed>>

\* Scope.AddProtocolImpl(implementations...): the deferred Unlock runs also
\* when the default case panics, and the panic reaches the caller.
AddProtocolImpl(s, imps) ==
  /\ ~crashed /\ mutex[s] = NoTask
  /\ LET r == AddImpls(dispHeap[dispatchers[s]], imps, 1)
     IN /\ dispHeap' = [dispHeap EXCEPT ![dispatchers[s]] = r.disp]
        /\ panicMsg' = r.panic
  /\ calls' = calls + 1
  /\ UNCHANGED <<auxVars, ctxVars, scopeVars, varsHeap, funcHeap, plugHeap,
                 dtorVars, closeVars, taskVars, crashed>>

\* ------------------------------------------------------------- destructors
HostDtors == { d \in Dtors : nestOf[d] = 0 }

Kinds == {"ret", "hang", "nest"}

\* AddDestructor: "Scope is already destroyed - call the destructor now".
RunsNowNever(s) == FALSE
RunsNow(s) == is_destroyed[s]

\* Scope.AddDestructor(fn) called by the host task, with fn a new closure of
\* kind k. On a destroyed scope fn() is called with the mutex held: a closure
\* of kind "ret" returns at once and the deferred Unlock runs; one of another
\* kind leaves the task inside fn() with the mutex held.
AddDestructor(s, k) ==
  /\ ~crashed /\ epc[Adder] = "idle"
  /\ mutex[s] = NoTask
  /\ LET d == Len(kind) + 1
     IN /\ kind' = Append(kind, k)
        /\ owner' = Append(owner, s)
        /\ nestOf' = Append(nestOf, 0)
        /\ ecell' = Append(ecell, 0)
        /\ cancelled' = Append(cancelled, FALSE)
        /\ timedout' = Append(timedout, FALSE)
        /\ IF RunsNow(s)
           THEN /\ invoked' = Append(invoked, 1)
                /\ ranIn' = Append(ranIn, Adder)
                /\ fn' = fn
                /\ IF k = "ret"
                   THEN /\ mutex' = mutex
                        /\ epc' = Append(epc, "none")
                        /\ erun' = Append(erun, 0)
                   ELSE /\ mutex' = [mutex EXCEPT ![s] = Adder]
                        /\ epc' = Append([epc EXCEPT ![Adder] = "body"], "none")
                        /\ erun' = Append([erun EXCEPT ![Adder] = d], 0)
           ELSE /\ fn' = [fn EXCEPT ![s] = Append(@, d)]
                /\ invoked' = Append(invoked, 0)
                /\ ranIn' = Append(ranIn, NoTask)
                /\ epc' = Append(epc, "none")
                /\ erun' = Append(erun, 0)
                /\ mutex' = mutex
  /\ UNCHANGED <<auxVars, ctxVars, vars, functions, plugins, dispatchers, children,
                 is_destroyed, from, how, heapVars, hostVars, closeVars, crashed>>

\* context.WithTimeout / <-ctx.Done(): the context of goroutine e is done
\* once cancel() was called or its timer fired.
CtxDone(e) == cancelled[e] \/ timedout[e]

\* A closure of kind "nest", running in task e, calls AddDestructor on its
\* own scope with a new closure that returns at once: the call waits for the
\* scope mutex and runs to its Unlock, and then the "nest" closure returns.
\* In a goroutine cancel() follows; in the Adder task the outer
\* AddDestructor would unlock and return.
NestAcquire(e) ==
  /\ ~crashed /\ e \in Tasks
  /\ epc[e] = "body" /\ kind[erun[e]] = "nest"
  /\ LET s == owner[erun[e]]
     IN /\ mutex[s] = NoTask
        /\ kind' = Append(kind, "ret")
        /\ owner' = Append(owner, s)
        /\ nestOf' = Append(nestOf, erun[e])
        /\ IF RunsNow(s)
           THEN /\ invoked' = Append(invoked, 1)
                /\ ranIn' = Append(ranIn, e)
                /\ fn' = fn
           ELSE /\ invoked' = Append(invoked, 0)
                /\ ranIn' = Append(ranIn, NoTask)
                /\ fn' = [fn EXCEPT ![s] = Append(@, Len(kind) + 1)]
  /\ IF e = Adder
     THEN /\ epc' = Append([epc EXCEPT ![e] = "idle"], "none")
          /\ erun' = Append([erun EXCEPT ![e] = 0], 0)
          /\ cancelled' = Append(cancelled, FALSE)
     ELSE /\ epc' = Append([epc EXCEPT ![e] = "done"], "none")
          /\ erun' = Append(erun, 0)
          /\ cancelled' = Append([cancelled EXCEPT ![e] = TRUE], FALSE)
  /\ ecell' = Append(ecell, 0)
  /\ timedout' = Append(timedout, FALSE)
  /\ UNCHANGED <<auxVars, ctxVars, vars, functions, plugins, dispatchers, children,
                 is_destroyed, mutex, from, how, heapVars, hostVars, closeVars,
                 crashed>>

\* -------------------------------------------------------------------- Close
\* The scopes made from s by a chain of Copy() calls, and s.
RECURSIVE Descendants(_)
Descendants(s) ==
  {s} \cup UNION { Descendants(c) :
                    c \in { x \in Scopes : from[x] = s /\ how[x] = "copy" } }

\* A frame of the closing task: a call of Close() on `scope` that holds or
\* has held the mutex; kids is the value of the range expression
\* self.children. desc and regd remember the scopes below `scope` and the
\* closures registered on them when Close() was called.
NewFrame(s) ==
  [scope |-> s, pc |-> "children", kids |-> children[s], ci |-> 1, cell |-> 0,
   desc |-> Descendants(s),
   regd |-> { d \in Dtors : owner[d] \in Descendants(s) }]

Top == stack[Len(stack)]
Pop == SubSeq(stack, 1, Len(stack) - 1)

\* The host calls Close() on a scope: self.Lock().
CloseCall(s) ==
  /\ ~crashed /\ stack = << >>
  /\ mutex[s] = NoTask
  /\ mutex' = [mutex EXCEPT ![s] = Closer]
  /\ stack' = <<NewFrame(s)>>
  /\ UNCHANGED <<auxVars, ctxVars, vars, functions, plugins, dispatchers, children, fn,
                 is_destroyed, from, how, heapVars, hostVars, dtorVars,
                 cellDs, cellI, taskVars, crashed>>

\* for _, child := range self.children { child.Close() }: the call and the
\* child's Lock(), made with the parent's mutex held.
CloseChild ==
  /\ ~crashed /\ stack # << >> /\ Top.pc = "children"
  /\ Top.ci <= Len(Top.kids)
  /\ mutex[Top.kids[Top.ci]] = NoTask
  /\ mutex' = [mutex EXCEPT ![Top.kids[Top.ci]] = Closer]
  /\ stack' = Append([stack EXCEPT ![Len(stack)].ci = @ + 1],
                     NewFrame(Top.kids[Top.ci]))
  /\ UNCHANGED <<auxVars, ctxVars, vars, functions, plugins, dispatchers, children, fn,
                 is_destroyed, from, how, heapVars, hostVars, dtorVars,
                 cellDs, cellI, taskVars, crashed>>

\* The loop over the children has ended.
ChildrenDoneAtOnce(f) == TRUE
ChildrenDone(f) == f.ci > Len(f.kids)

\* for i := len(ds) - 1; i >= 0; i--
LoopStartFirst(ds) == IF ds = << >> THEN 0 - 1 ELSE 0
LoopStart(ds) == Len(ds) - 1
LoopCond(i) == i >= 0
LoopNext(i) == i - 1

\* The closure the loop of Close() c is at: ds[i].
Current(c) == cellDs[c][cellI[c] + 1]

\* is_destroyed = true; ds := copy of fn; fn = empty; self.Unlock(); then the
\* first iteration of the loop up to its select:
\*   ctx, cancel := context.WithTimeout(...); go func() { ds[i](); cancel() }()
\* With no destructor to run the loop is not entered and Close() returns.
CloseMark ==
  /\ ~crashed /\ stack # << >> /\ Top.pc = "children"
  /\ ChildrenDone(Top)
  /\ LET s  == Top.scope
         ds == fn[s]
         i  == LoopStart(ds)
         c  == Len(cellDs) + 1
     IN /\ is_destroyed' = [is_destroyed EXCEPT ![s] = TRUE]
        /\ fn' = [fn EXCEPT ![s] = << >>]
        /\ mutex' = [mutex EXCEPT ![s] = NoTask]
        /\ IF ds = << >>
           THEN /\ stack' = Pop
                /\ UNCHANGED <<cellDs, cellI, epc, ecell>>
           ELSE /\ cellDs' = Append(cellDs, ds)
                /\ cellI' = Append(cellI, i)
                /\ epc' = [epc EXCEPT ![GoTask(ds[i + 1])] = "launched"]
                /\ ecell' = [ecell EXCEPT ![GoTask(ds[i + 1])] = c]
                /\ stack' = [stack EXCEPT ![Len(stack)] =
                               [@ EXCEPT !.pc = "wait", !.cell = c]]
  /\ UNCHANGED <<auxVars, ctxVars, vars, functions, plugins, dispatchers, children, from, how,
                 heapVars, hostVars, dtorVars, erun, cancelled, timedout,
                 crashed>>

\* The closing task waits in the select of goroutine e's context.
WaitsFor(e) ==
  /\ stack # << >> /\ Top.pc = "wait"
  /\ e = GoTask(Current(Top.cell))

\* After the select: i--, and the next iteration up to its select, or the
\* return of Close() when the loop condition fails.
LoopStep ==
  LET c  == Top.cell
      i  == LoopNext(cellI[c])
  IN /\ cellI' = [cellI EXCEPT ![c] = i]
     /\ IF LoopCond(i)
        THEN /\ epc' = [epc EXCEPT ![GoTask(cellDs[c][i + 1])] = "launched"]
             /\ ecell' = [ecell EXCEPT ![GoTask(cellDs[c][i + 1])] = c]
             /\ stack' = stack
        ELSE /\ stack' = Pop
             /\ UNCHANGED <<epc, ecell>>

\* case <-ctx.Done(): the context is done (cancel() was called).
CloseWaitDone ==
  /\ ~crashed /\ stack # << >> /\ Top.pc = "wait"
  /\ CtxDone(GoTask(Current(Top.cell)))
  /\ LoopStep
  /\ UNCHANGED <<auxVars, ctxVars, scopeVars, heapVars, hostVars, dtorVars, cellDs,
                 erun, cancelled, timedout, crashed>>

\* case <-ctx.Done(): the 60 second timer of the context fires while Close()
\* waits, and Close() moves on.
CloseTimeout ==
  /\ ~crashed /\ stack # << >> /\ Top.pc = "wait"
  /\ ~CtxDone(GoTask(Current(Top.cell)))
  /\ timedout' = [timedout EXCEPT ![GoTask(Current(Top.cell))] = TRUE]
  /\ LoopStep
  /\ UNCHANGED <<auxVars, ctxVars, scopeVars, heapVars, hostVars, dtorVars, cellDs,
                 erun, cancelled, crashed>>

\* The index of the closure goroutine e was started for.
OwnIndex(e) ==
  (CHOOSE j \in 1..Len(cellDs[ecell[e]]) : cellDs[ecell[e]][j] = e - 1) - 1

\* The value of i the goroutine's closure reads in ds[i]. The closure
\* captures the variable i: with one variable per loop (Go before 1.22) it
\* reads what the loop has made of i by the time the goroutine runs, with
\* one variable per iteration the value i had when it was started.
CapturedIndex(e) == { OwnIndex(e), cellI[ecell[e]] }

\* The goroutine runs ds[i](). An index of -1 is a run-time panic in the
\* goroutine, which ends the process. A closure of kind "ret" returns at
\* once and cancel() is called.
GoStart(e) ==
  /\ ~crashed /\ e \in Tasks /\ epc[e] = "launched"
  /\ \E idx \in CapturedIndex(e) :
       IF idx < 0
       THEN /\ crashed' = TRUE
            /\ UNCHANGED <<invoked, ranIn, erun, epc, cancelled>>
       ELSE LET run == cellDs[ecell[e]][idx + 1]
            IN /\ invoked' = [invoked EXCEPT ![run] = @ + 1]
               /\ ranIn' = [ranIn EXCEPT ![run] = e]
               /\ erun' = [erun EXCEPT ![e] = run]
               /\ IF kind[run] = "ret"
                  THEN /\ epc' = [epc EXCEPT ![e] = "done"]
                       /\ cancelled' = [cancelled EXCEPT ![e] = TRUE]
                  ELSE /\ epc' = [epc EXCEPT ![e] = "body"]
                       /\ cancelled' = cancelled
               /\ crashed' = crashed
  /\ UNCHANGED <<auxVars, ctxVars, scopeVars, heapVars, hostVars, kind, owner, nestOf,
                 closeVars, ecell, timedout>>

\* ----------------------------------------------------------- specifications
\* Scope creation, bounded.
NewScopes ==
  /\ Len(vars) < MaxScopes
  /\ \/ FactoryNewScope
     \/ \E s \in Scopes : NewScopeMethod(s)
     \/ \E s \in Scopes : Copy(s)

\* Scopes made from the first scope, bounded.
DerivedScopes ==
  /\ Len(vars) < MaxScopes
  /\ \/ \E s \in Scopes : NewScopeMethod(s)
     \/ \E s \in Scopes : Copy(s)

\* The variable stack.
NextVars ==
  \/ DerivedScopes
  \/ \E s \in Scopes, row \in RowInputs : calls < MaxAppends /\ AppendVars(s, row)

\* The function and plugin registries.
NextReg ==
  \/ NewScopes
  \/ \E s \in Scopes, items \in FunctionArgs :
       calls < MaxRegs /\ AppendFunctions(s, items)
  \/ \E s \in Scopes, items \in FunctionArgs :
       calls < MaxRegs /\ AppendPlugins(s, items)

\* The protocol dispatchers.
NextProto ==
  \/ DerivedScopes
  \/ \E s \in Scopes, imps \in ImplArgs :
       calls < MaxImpls /\ AddProtocolImpl(s, imps)

\* The variable stack and the context of scopes made by NewScope() / Copy().
NextNew ==
  \/ DerivedScopes
  \/ \E s \in Scopes, row \in RowInputs :
       calls < MaxCtxCalls /\ AppendVars(s, row)
  \/ \E s \in Scopes, n \in {"c1"}, v \in {"x"} :
       calls < MaxCtxCalls /\ SetContext(s, n, v)
  \/ \E s \in Scopes : calls < MaxCtxCalls /\ ClearContext(s)

SpecNew   == Init /\ [][NextNew]_allVars

\* Rows given to RowToDict, and frames appended to the first scope.
NextNorm ==
  \/ \E k \in {"a", "b"}, v \in NvValues : RowSet(k, v)
  \/ RowToDictCall
  \/ \E r \in RowInputs : calls < MaxNormVars /\ AppendVars(1, r)

SpecNorm  == Init /\ [][NextNorm]_allVars

\* Expression texts of up to MaxTokens tokens, parsed and rendered.
NextParse ==
  \/ \E a \in {"0x1", "x"} : qText = << >> /\ TextEdit(<<a>>)
  \/ \E o \in {"OR", "and", "=", "-", "*"}, a \in {"0x1", "x"} :
       /\ qText # << >> /\ Len(qText) + 2 <= MaxTokens
       /\ TextEdit(qText \o <<o, a>>) \/ TextEdit(<<a, o>> \o qText)
  \/ \E o \in {"NOT", "-"} :
       /\ qText # << >> /\ Len(qText) + 1 <= MaxTokens
       /\ TextEdit(<<o>> \o qText)
  \/ /\ qText # << >> /\ Len(qText) + 2 <= MaxTokens
     /\ TextEdit(<<"(">> \o qText \o <<")">>)
  \/ ParseRoundTrip

SpecParse == Init /\ [][NextParse]_allVars

\* Definitions marshalled and replayed into another scope.
NextReplay ==
  \/ \E n \in ReplayNames, ps \in ReplayParams, text \in ReplayBodies :
       ReplayDefine(n, ps, text)
  \/ ReplayMarshal
  \/ \E item \in ForeignItems : ReplayForeign(item)
  \/ ReplayUnmarshal

SpecReplay == Init /\ [][NextReplay]_allVars

\* SELECT foo, panic(column=foo, value=v) FROM test() WHERE foo = w.
NextLazy ==
  \/ \E source \in SeqsUpTo(FooValues, MaxRows), w \in FooValues,
        v \in FooValues : LazySelect(source, w, v)
  \/ LazyRowStep
  \/ LazyReadRow
  \/ LazyDone

SpecLazy  == Init /\ [][NextLazy]_allVars

\* Arithmetic clauses, reduced one after the other.
NextEval ==
  \E op \in Operators, a \in Operands, b \in Operands :
    EvalWhereClause(op, a, b)

SpecEval  == Init /\ [][NextEval]_allVars

\* The queries of TestMaterializedStoredQuery, in any order.
NextLet ==
  \/ CounterFunctionCount < MaxCounter /\ RunSelectCounter
  \/ \E x \in LetNames : RunLet(x)
  \/ \E x \in LetNames :
       CounterFunctionCount < MaxCounter /\ RunLetMaterialized(x)
  \/ \E x \in LetNames :
       CounterFunctionCount < MaxCounter /\ RunSelectFrom(x)

SpecLet   == Init /\ [][NextLet]_allVars

\* The Iterate dispatcher, one call at a time.
NextIter ==
  \/ \E a \in IterImpls : Len(itImpl) < MaxIterImpls /\ IterAddImpl(<<a>>)
  \/ \E a \in IterValues : Iterate(a)
  \/ IterReceive
  \/ IterProducerCancelled
  \/ IterProducerClose
  \/ IterCancel
  \/ IterEOF

SpecIter  == Init /\ [][NextIter]_allVars

\* The producer goroutine is scheduled; nothing makes the consumer receive.
SpecIterLive ==
  /\ SpecIter
  /\ WF_allVars(IterProducerCancelled)
  /\ WF_allVars(IterProducerClose)
SpecVars  == Init /\ [][NextVars]_allVars
SpecReg   == Init /\ [][NextReg]_allVars
SpecProto == Init /\ [][NextProto]_allVars

\* The steps of Close() and of the goroutines it starts.
CloseSteps ==
  \/ \E s \in Scopes : CloseCall(s)
  \/ CloseChild
  \/ CloseMark
  \/ CloseWaitDone
  \/ CloseTimeout
  \/ \E e \in Tasks : GoStart(e)

\* Destructors that return or hang, on a scope and its child.
Next ==
  \/ \E s \in Scopes : Len(vars) < MaxLive /\ Copy(s)
  \/ \E s \in Scopes, k \in {"ret", "hang"} :
       Cardinality(HostDtors) < MaxDtors /\ AddDestructor(s, k)
  \/ CloseSteps

Spec == Init /\ [][Next]_allVars

\* The timer of a context fires after 60 seconds, and the closing task and
\* the goroutines are scheduled.
Fairness ==
  /\ WF_allVars(CloseChild \/ CloseMark \/ CloseWaitDone \/ CloseTimeout)
  /\ WF_allVars(\E e \in Tasks : GoStart(e))

SpecLive == Spec /\ Fairness

\* Destructors on a tree of scopes.
NextTree ==
  \/ \E s \in Scopes : Len(vars) < MaxScopes /\ Copy(s)
  \/ \E s \in Scopes, k \in {"ret", "hang"} :
       Cardinality(HostDtors) < MaxTreeDtors /\ AddDestructor(s, k)
  \/ CloseSteps

SpecTree == Init /\ [][NextTree]_allVars

\* Frames with and without a default, appended to the first scope.
NextDefault ==
  \E row \in RowInputs \cup HostRows : calls < MaxAppends /\ AppendVars(1, row)

SpecDefault == Init /\ [][NextDefault]_allVars

\* Destructors on scopes made by NewScope() and by Copy().
NextAdopt ==
  \/ DerivedScopes
  \/ \E s \in Scopes, k \in {"ret", "hang"} :
       Cardinality(HostDtors) < MaxTreeDtors /\ AddDestructor(s, k)
  \/ CloseSteps

SpecAdopt == Init /\ [][NextAdopt]_allVars

\* Destructors that register a destructor.
NextNest ==
  \/ \E s \in Scopes : Len(vars) < MaxLive /\ Copy(s)
  \/ \E s \in Scopes, k \in {"ret", "nest"} :
       Cardinality(HostDtors) < MaxDtors /\ AddDestructor(s, k)
  \/ CloseSteps
  \/ \E e \in Tasks : NestAcquire(e)

SpecNest == Init /\ [][NextNest]_allVars

\* ------------------------------------------------------------------ claims
Range(seq) == { seq[i] : i \in 1..Len(seq) }

Frames(s) == varsHeap[vars[s]]

\* The newest frame of a scope that binds k.
Newest(s, k) ==
  CHOOSE i \in 1..Len(Frames(s)) :
    /\ k \in DOMAIN Frames(s)[i]
    /\ \A j \in (i + 1)..Len(Frames(s)) : k \notin DOMAIN Frames(s)[j]

\* C1: after any sequence of AppendVars calls, Resolve(k) returns, as
\* present, the value bound to k in the most recently appended frame that
\* binds k (a bound host nil is handed out as Null).
C1_ResolveNewestBinding ==
  \A s \in Scopes, k \in Names :
    (\E i \in 1..Len(Frames(s)) : k \in DOMAIN Frames(s)[i]) =>
      LET v == Frames(s)[Newest(s, k)][k]
      IN Resolve(s, k) = <<IF v = Nil THEN Null ELSE v, TRUE>>

\* A frame {k1: v2} appended over an earlier {k1: v1}: Resolve(k1) = v2.
C1_Witness ==
  \E s \in Scopes :
    /\ \E i, j \in 1..Len(Frames(s)) :
         /\ i < j /\ j = Len(Frames(s))
         /\ "k1" \in DOMAIN Frames(s)[i] /\ Frames(s)[i]["k1"] = "v1"
         /\ "k1" \in DOMAIN Frames(s)[j] /\ Frames(s)[j]["k1"] = "v2"
    /\ Resolve(s, "k1") = <<"v2", TRUE>>

\* The dispatcher lists of a scope.
Impls(s) == dispHeap[dispatchers[s]]

\* C8: AddProtocolImpl on a scope changes no dispatcher list of any other
\* scope; in particular what is added to a scope made by Copy() or
\* NewScope() does not appear in the lists of the scope it was made from.
C8_ChildImplsDoNotLeak ==
  [][ \A s \in Scopes, imps \in ImplArgs :
        AddProtocolImpl(s, imps) =>
          \A t \in Scopes \ {s} : Impls(t)' = Impls(t) ]_allVars

\* A scope made by Copy() holds a host Iterate implementation that the scope
\* it was copied from does not hold.
C8_Witness ==
  \E c \in Scopes :
    /\ how[c] = "copy"
    /\ \E j \in 1..Len(Impls(c)["Iterate"]) :
         Impls(c)["Iterate"][j].id = "hostIter"
    /\ \A j \in 1..Len(Impls(from[c])["Iterate"]) :
         Impls(from[c])["Iterate"][j].id # "hostIter"

\* The factory scope a scope descends from.
RECURSIVE Root(_)
Root(s) == IF from[s] = 0 THEN s ELSE Root(from[s])

Functions(s) == funcHeap[functions[s]]
Plugins(s)   == plugHeap[plugins[s]]

\* The implementation the last item named n of a call's arguments has.
LastNamed(items, n) ==
  items[CHOOSE i \in 1..Len(items) :
          /\ items[i].name = n
          /\ \A j \in (i + 1)..Len(items) : items[j].name # n].impl

\* C9: a scope and every scope made from it by Copy() or NewScope() hold
\* the same function and plugin registries: every name resolves alike in
\* all of them, and after AppendFunctions / AppendPlugins on one of them
\* each registered name resolves, in all of them, to the implementation
\* registered last under that name.
C9_RegistriesShared ==
  /\ [] (\A s, t \in Scopes :
           Root(s) = Root(t) =>
             /\ Functions(s) = Functions(t)
             /\ Plugins(s) = Plugins(t))
  /\ [][ \A s \in Scopes, items \in FunctionArgs :
           /\ AppendFunctions(s, items) =>
                \A t \in Scopes : \A i \in 1..Len(items) :
                  Root(t) = Root(s) =>
                    Lookup(Functions(t)', items[i].name)
                      = <<LastNamed(items, items[i].name), TRUE>>
           /\ AppendPlugins(s, items) =>
                \A t \in Scopes : \A i \in 1..Len(items) :
                  Root(t) = Root(s) =>
                    Lookup(Plugins(t)', items[i].name)
                      = <<LastNamed(items, items[i].name), TRUE>> ]_allVars

\* A scope, a Copy() of it and a NewScope() of it all resolve function f to
\* its second implementation and plugin g to its first.
C9_Witness ==
  \E s, c, n \in Scopes :
    /\ from[c] = s /\ how[c] = "copy"
    /\ from[n] = s /\ how[n] = "new"
    /\ \A x \in {s, c, n} :
         /\ Lookup(Functions(x), "f") = <<2, TRUE>>
         /\ Lookup(Plugins(x), "g") = <<1, TRUE>>

\* C10: right after Copy() every name resolves in the child as in the
\* parent; AppendVars on a scope changes no Resolve result of any other
\* scope, so not the parent's by the child's nor the child's by the
\* parent's.
C10_ChildOwnsItsStack ==
  /\ [][ \A s \in Scopes :
           Copy(s) =>
             \A k \in Names :
               ResolveFrames(varsHeap'[vars'[Len(vars) + 1]], k)
                 = Resolve(s, k) ]_allVars
  /\ [][ \A s \in Scopes, row \in RowInputs :
           AppendVars(s, row) =>
             \A t \in Scopes \ {s} : \A k \in Names :
               Resolve(t, k)' = Resolve(t, k) ]_allVars

\* A child that inherited the frame {k1: v1} from its parent at Copy(),
\* after an AppendVars of {k1: nil} on the child and one of {k1: v2} on the
\* parent: each resolves k1 by its own newest frame.
C10_Witness ==
  \E c \in Scopes :
    /\ how[c] = "copy"
    /\ Len(Frames(c)) = 3 /\ Len(Frames(from[c])) = 3
    /\ Frames(c)[2] = Frames(from[c])[2]
    /\ Frames(c)[2]["k1"] = "v1"
    /\ Resolve(c, "k1") = <<Null, TRUE>>
    /\ Resolve(from[c], "k1") = <<"v2", TRUE>>

\* ------------------------------------------------- claims on the life cycle
\* Close() has started closure d: its loop has executed the go statement of
\* the iteration for d.
Launched(d) == epc[GoTask(d)] # "none"

\* The goroutine Close() started for closure d has called d and d returned.
Returned(d) == erun[GoTask(d)] = d /\ epc[GoTask(d)] = "done"

\* Closure d was called at once by AddDestructor, in the host task.
RanAtOnce(d) == ranIn[d] = Adder

\* The closures are numbered in the order of their AddDestructor calls.
InOrder(ds) == \A j, j2 \in 1..Len(ds) : j < j2 => ds[j] < ds[j2]

\* C2: the slice ds that Close() runs holds the closures in the order of
\* their registration, and Close() starts them last to first: whenever
\* ds[j] has been started, every later entry has been started before, and
\* has returned or has had its timeout fire.
C2_ReverseOrder ==
  \A c \in 1..Len(cellDs) :
    /\ InOrder(cellDs[c])
    /\ \A j, j2 \in 1..Len(cellDs[c]) :
         (j < j2 /\ Launched(cellDs[c][j])) =>
           /\ Launched(cellDs[c][j2])
           /\ Returned(cellDs[c][j2]) \/ timedout[GoTask(cellDs[c][j2])]

\* A Close() with two closures that has started the first registered one
\* after the last registered one returned.
C2_Witness ==
  \E c \in 1..Len(cellDs) :
    /\ Len(cellDs[c]) = 2
    /\ Launched(cellDs[c][1])
    /\ Returned(cellDs[c][2]) /\ ~timedout[GoTask(cellDs[c][2])]

\* C3 as stated: Close() marks the scope destroyed and drains the scope's
\* own destructors before it closes a child: while a child is being closed
\* by the parent's Close(), the parent is marked destroyed and, once a
\* closure of the child has been started, no closure is left in the
\* parent's list.
C3_ParentFirst ==
  \A n \in 2..Len(stack) :
    /\ is_destroyed[stack[n - 1].scope]
    /\ stack[n].pc = "wait" => fn[stack[n - 1].scope] = << >>

\* C3, as the code has it: Close() closes the children first, holding the
\* scope's mutex, and only then marks the scope destroyed and drains its
\* own destructors. While a child is being closed the parent's Close()
\* holds the parent's mutex and has started none of the closures in the
\* parent's list; and when the parent's Close() marks the parent, every
\* child it holds is marked destroyed with an empty list, and every closure
\* registered on a child has been called at once by AddDestructor or has
\* been started by Close() and has returned or timed out.
C3_ChildrenFirst ==
  /\ [] (\A n \in 2..Len(stack) :
           /\ stack[n - 1].pc = "children"
           /\ mutex[stack[n - 1].scope] = Closer
           /\ \A d \in Range(fn[stack[n - 1].scope]) : ~Launched(d))
  /\ [][ CloseMark =>
           \A k \in Range(Top.kids) :
             /\ is_destroyed[k] /\ fn[k] = << >>
             /\ \A d \in Dtors :
                  owner[d] = k =>
                    \/ RanAtOnce(d)
                    \/ /\ Launched(d)
                       /\ Returned(d) \/ timedout[GoTask(d)] ]_allVars

\* Close() of a parent waiting for its own closure after it closed a child
\* whose closure was started.
C3_Witness ==
  /\ Len(stack) = 1 /\ Top.pc = "wait"
  /\ Top.kids # << >>
  /\ \E d \in Dtors : owner[d] = Top.kids[1] /\ Launched(d)
                      /\ ecell[GoTask(d)] < Top.cell
  /\ owner[Current(Top.cell)] = Top.scope

\* C4: when Close() of a scope returns, the scope and every scope made
\* from it by a chain of Copy() calls before the Close() are marked
\* destroyed, and every closure registered on one of them before the
\* Close() has been started by a Close() or was called at once by
\* AddDestructor.
C4_ClosesTransitively ==
  [][ Len(stack') < Len(stack) =>
        /\ \A x \in Top.desc : is_destroyed'[x]
        /\ \A d \in Top.regd : Launched(d)' \/ RanAtOnce(d)' ]_allVars

\* Close() of a scope with a child and a grandchild has returned: all three
\* are destroyed and the closure registered on the grandchild was started.
C4_Witness ==
  /\ stack = << >>
  /\ \E s, c, g \in Scopes :
       /\ from[c] = s /\ how[c] = "copy"
       /\ from[g] = c /\ how[g] = "copy"
       /\ is_destroyed[s] /\ is_destroyed[c] /\ is_destroyed[g]
       /\ \E d \in Dtors : owner[d] = g /\ Launched(d)

\* C5: AddDestructor(fn) on a scope that is not destroyed appends fn to
\* the scope's list and does not call it; on a destroyed scope it calls fn
\* once, in the calling task, and appends nothing. A closure in a list has
\* not been called, and one that AddDestructor called is in no list, is not
\* started by any Close(), and has been called exactly once.
C5_AppendOrRunNow ==
  /\ [][ \A s \in Scopes, k \in Kinds :
           AddDestructor(s, k) =>
             LET d == Len(kind) + 1
             IN IF is_destroyed[s]
                THEN /\ invoked'[d] = 1 /\ ranIn'[d] = Adder
                     /\ fn' = fn
                ELSE /\ invoked'[d] = 0 /\ ranIn'[d] = NoTask
                     /\ fn' = [fn EXCEPT ![s] = Append(fn[s], d)] ]_allVars
  /\ [] (\A d \in Dtors :
           /\ (\E s \in Scopes : d \in Range(fn[s])) => invoked[d] = 0
           /\ RanAtOnce(d) =>
                /\ invoked[d] = 1
                /\ ~Launched(d)
                /\ \A s \in Scopes : d \notin Range(fn[s]))

\* One closure waits in the list of a live scope, uncalled, and another was
\* called at once on a destroyed scope.
C5_Witness ==
  \E d, d2 \in Dtors :
    /\ ~is_destroyed[owner[d]] /\ d \in Range(fn[owner[d]]) /\ invoked[d] = 0
    /\ is_destroyed[owner[d2]] /\ RanAtOnce(d2) /\ invoked[d2] = 1

\* C6: a closure that registers a closure on its own scope is never run
\* by a task that holds the mutex of that scope, so its call of
\* AddDestructor can take the mutex and return.
C6_NestedRegistrationReturns ==
  \A e \in Tasks :
    (epc[e] = "body" /\ kind[erun[e]] = "nest") =>
      mutex[owner[erun[e]]] # e

\* C7: while Close() waits for a closure that never returns, Close() can
\* go on: the timer of the context fires, and the loop starts the next
\* closure or Close() returns.
C7_CloseGoesOn ==
  \A e \in Tasks :
    (WaitsFor(e) /\ epc[e] = "body" /\ kind[erun[e]] = "hang") =>
      ENABLED CloseTimeout

\* ------------------------------------------------------ claims on NewScope()
\* C11: the scope the method NewScope() returns holds exactly one frame,
\* {NULL: Null}: NULL resolves to (Null, true) and no other name resolves,
\* whatever was appended to the receiver; its context is empty; and the
\* call leaves the receiver's frames, context and child list as they were.
C11_NewScopeIsFresh ==
  [][ \A s \in Scopes :
        NewScopeMethod(s) =>
          LET n == Len(vars) + 1
          IN /\ varsHeap'[vars'[n]] = <<NullFrame>>
             /\ ResolveFrames(varsHeap'[vars'[n]], "NULL") = <<Null, TRUE>>
             /\ \A k \in Names \ {"NULL"} :
                  ResolveFrames(varsHeap'[vars'[n]], k) = <<Nil, FALSE>>
             /\ DOMAIN ctxHeap'[context'[n]] = {}
             /\ varsHeap'[vars'[s]] = varsHeap[vars[s]]
             /\ ctxHeap'[context'[s]] = ctxHeap[context[s]]
             /\ children'[s] = children[s] ]_allVars

\* A scope made by NewScope() from a receiver that binds k1 and has c1 set
\* in its context: the new scope resolves only NULL and has no context entry.
C11_Witness ==
  \E n \in Scopes :
    /\ how[n] = "new"
    /\ Resolve(from[n], "k1") = <<"v1", TRUE>>
    /\ GetContext(from[n], "c1") = "x"
    /\ Frames(n) = <<NullFrame>>
    /\ Resolve(n, "k1") = <<Nil, FALSE>>
    /\ GetContext(n, "c1") = Nil

\* ------------------------------------------------- claims on AddProtocolImpl
\* The arguments of a call that implement none of the eleven protocols.
Unsupported(imps) == { i \in 1..Len(imps) : imps[i].caps \cap Protocols = {} }

\* The number of arguments before the first unsupported one.
Routed(imps) ==
  IF Unsupported(imps) = {} THEN Len(imps)
  ELSE (CHOOSE i \in Unsupported(imps) : \A j \in Unsupported(imps) : i <= j) - 1

\* What a call appended to the list of protocol p of scope s.
Added(s, p) ==
  SubSeq(Impls(s)'[p], Len(Impls(s)[p]) + 1, Len(Impls(s)'[p]))

RECURSIVE SumLen(_, _)
SumLen(d, ps) ==
  IF ps = {} THEN 0
  ELSE LET p == CHOOSE x \in ps : TRUE IN Len(d[p]) + SumLen(d, ps \ {p})

\* C12: AddProtocolImpl panics with "Unsupported interface" exactly when an
\* argument implements none of the eleven protocols; every argument up to
\* the first such one (all of them when there is none) is appended to the
\* list of a protocol it implements, nothing else is appended and nothing
\* is removed: no argument is left out without a panic.
C12_RoutesOrPanics ==
  [][ \A s \in Scopes, imps \in ImplArgs :
        AddProtocolImpl(s, imps) =>
          /\ panicMsg' = IF Unsupported(imps) = {} THEN ""
                         ELSE "Unsupported interface"
          /\ \A p \in Protocols :
               SubSeq(Impls(s)'[p], 1, Len(Impls(s)[p])) = Impls(s)[p]
          /\ \A i \in 1..Routed(imps) :
               \E p \in imps[i].caps : imps[i] \in Range(Added(s, p))
          /\ SumLen(Impls(s)', Protocols)
               = SumLen(Impls(s), Protocols) + Routed(imps) ]_allVars

\* A call with a supported and then an unsupported argument: the first is
\* in the Iterate list and the call has panicked.
C12_Witness ==
  /\ panicMsg = "Unsupported interface"
  /\ \E s \in Scopes : \E j \in 1..Len(Impls(s)["Iterate"]) :
       Impls(s)["Iterate"][j].id = "hostIter"


\* The value a dict holds under key k.
DictGet(d, k) ==
  LET i == CHOOSE j \in 1..Len(d.items) : d.items[j].k = k
  IN d.items[i].v

\* C13: a host nil never enters user space as a present value: Resolve
\* never returns (nil, true), a name whose newest binding is nil resolves
\* to (Null, true), and a row column holding nil comes out of RowToDict
\* as Null (unless another column made RowToDict panic).
C13_NilNeverPresent ==
  /\ \A s \in Scopes, k \in Names :
       /\ Resolve(s, k) # <<Nil, TRUE>>
       /\ (/\ \E i \in 1..Len(Frames(s)) : k \in DOMAIN Frames(s)[i]
           /\ Frames(s)[Newest(s, k)][k] = Nil)
            => Resolve(s, k) = <<Null, TRUE>>
  /\ outRow # NoResult =>
       \A i \in 1..Len(inRow.items) :
         inRow.items[i].v = GoNil =>
           \/ /\ outRow.tag = "Dict"
              /\ DictGet(outRow, inRow.items[i].k) = GoNull
           \/ /\ outRow = Panicked
              /\ \E j \in 1..Len(inRow.items) :
                   /\ inRow.items[j].v # GoNil
                   /\ normalize_value(inRow.items[j].v, 0) = Panicked

\* A row with a nil column has been through RowToDict, and the newest
\* frame of the scope binds k1 to nil.
C13_Witness ==
  /\ outRow.tag = "Dict"
  /\ \E i \in 1..Len(inRow.items) :
       /\ inRow.items[i].v = GoNil
       /\ DictGet(outRow, inRow.items[i].k) = GoNull
  /\ Len(Frames(1)) > 1
  /\ Frames(1)[Len(Frames(1))] = [k \in {"k1"} |-> Nil]
  /\ Resolve(1, "k1") = <<Null, TRUE>>


\* ------------------------------------------------------- claims on Iterate
IsPrefix(s, seq) == Len(s) <= Len(seq) /\ s = SubSeq(seq, 1, Len(s))

\* C14: when a is not a LazyExpr, StoredQuery or Dict and no registered
\* implementation is Applicable to it, the stream of Iterate carries exactly
\* the one row {_value: a} and is closed after it; for a = Null it is closed
\* with no row.
C14_FallbackSingleRow ==
  ( /\ itArg # NoResult
    /\ itArg.tag \notin {"LazyExpr", "StoredQuery", "Dict"}
    /\ \A i \in 1..Len(itImpl) : ~Applicable(itImpl[i], itArg) )
  => LET want == IF itArg = GoNull THEN << >>
                 ELSE <<Dict(<<Item("_value", itArg)>>)>>
     IN /\ itInvoked = 0
        /\ itDelivered \o itToSend = want
        /\ itChan = "closed" => itDelivered = want
        /\ itChan = "open" /\ itDelivered = want => ENABLED IterProducerClose

\* Iterate("a") with an implementation registered that does not apply:
\* the consumer got {_value: "a"} and the channel is closed.
C14_Witness ==
  /\ itArg = Str("a") /\ itImpl = <<"sliceIter">>
  /\ itChan = "closed"
  /\ itDelivered = <<Dict(<<Item("_value", Str("a"))>>)>>

\* C15: the walk consults the implementations in registration order and
\* invokes only the first whose Applicable is true: none before it
\* applies, none after it is consulted, and the rows are its rows.
C15_FirstApplicableWins ==
  itPath \in {"impl", "fallback"} =>
    LET a == Reduced(itArg)
    IN /\ (\E i \in 1..Len(itImpl) : Applicable(itImpl[i], a)) => itInvoked # 0
       /\ itInvoked = 0 => itConsulted = [i \in 1..Len(itImpl) |-> i]
       /\ itInvoked # 0 =>
            /\ itInvoked \in 1..Len(itImpl)
            /\ Applicable(itImpl[itInvoked], a)
            /\ \A i \in 1..(itInvoked - 1) : ~Applicable(itImpl[i], a)
            /\ itConsulted = [i \in 1..itInvoked |-> i]
            /\ IF itCtxDone
               THEN IsPrefix(itDelivered \o itToSend,
                             ImplRows(itImpl[itInvoked], a))
               ELSE itDelivered \o itToSend = ImplRows(itImpl[itInvoked], a)

\* Two implementations that both apply to a slice: the first is invoked
\* and the second is not consulted.
C15_Witness ==
  /\ itImpl = <<"sliceIter", "anyIter">>
  /\ itArg.tag = "slice"
  /\ itInvoked = 1 /\ itConsulted = <<1>>
  /\ Applicable(itImpl[2], itArg)
  /\ itChan = "closed" /\ itDelivered = ImplRows("sliceIter", itArg)

\* C16: once the context of an Iterate call is cancelled, the producer
\* closes the returned channel, whether or not the consumer ever receives.
C16_CancelCloses == (itCtxDone /\ itChan = "open") ~> (itChan = "closed")


\* ----------------------------------------------------------- claims on LET
\* C17: LET x = SELECT counter() ... does not call counter(), and every
\* later SELECT * FROM x calls it once; LET y <= SELECT counter() ... calls
\* it exactly once, and no later SELECT * FROM y calls it again.
C17_LetLazyVsMaterialized ==
  [][ \A x \in LetNames :
        /\ RunLet(x) =>
             /\ CounterFunctionCount' = CounterFunctionCount
             /\ letVars'[x] = LazyQuery
        /\ RunLetMaterialized(x) =>
             /\ CounterFunctionCount' = CounterFunctionCount + 1
             /\ letVars'[x].kind = "seq"
        /\ (RunSelectFrom(x) /\ letVars[x].kind = "stored") =>
             CounterFunctionCount' = CounterFunctionCount + 1
        /\ (RunSelectFrom(x) /\ letVars[x].kind = "seq") =>
             /\ CounterFunctionCount' = CounterFunctionCount
             /\ letRows' = letVars[x].rows ]_allVars

\* The end of TestMaterializedStoredQuery: counter() has run three times,
\* one name holds the query, the other its rows, which were just read.
C17_Witness ==
  /\ CounterFunctionCount = 3
  /\ letVars["stored"] = LazyQuery
  /\ letVars["materialized"].kind = "seq"
  /\ letRows = letVars["materialized"].rows /\ letRows # << >>


C20_DivByZeroIsNull ==
  evClause # NoResult =>
    /\ ( /\ evClause.op = "/"
         /\ evClause.a.tag = "int" /\ evClause.b = GoInt(0) )
       => (Eq(evValue, GoNull) /\ ~Eq(evValue, GoBool(FALSE)))
    /\ ( /\ evClause.op \in {"+", "-"}
         /\ {evClause.a.tag, evClause.b.tag} = {"int", "string"} )
       => evValue = GoNull
    /\ ( /\ evClause.op = "-"
         /\ evClause.a.tag = "string" /\ evClause.b.tag = "string" )
       => evValue = GoNull


\* ------------------------------------------ claims on the protocol switch
\* The position of protocol p in the order of the type switch.
OrderOf(p) == CHOOSE i \in 1..Len(ProtocolOrder) : ProtocolOrder[i] = p

\* C25: an argument of AddProtocolImpl that is reached by the loop and
\* implements one or more protocols is appended to the list of exactly one
\* protocol, the one of those it implements that comes first in the order
\* Bool, Eq, Lt, Add, Sub, Mul, Div, Membership, Associative, Regex,
\* Iterate, and to no other list.
C25_FirstProtocolOnly ==
  [][ \A s \in Scopes, imps \in ImplArgs :
        AddProtocolImpl(s, imps) =>
          \A i \in 1..Routed(imps) : \A p \in Protocols :
            imps[i] \in Range(Added(s, p))
              <=> /\ p \in imps[i].caps
                  /\ \A q \in imps[i].caps : OrderOf(p) <= OrderOf(q) ]_allVars

\* A scope holds the host implementation of both Eq and Lt in its Eq list
\* and not in its Lt list.
C25_Witness ==
  \E s \in Scopes :
    /\ \E j \in 1..Len(Impls(s)["Eq"]) : Impls(s)["Eq"][j].id = "hostEqLt"
    /\ \A j \in 1..Len(Impls(s)["Lt"]) : Impls(s)["Lt"][j].id # "hostEqLt"


\* ------------------------------------------------------ claims on contexts
\* Scopes s and t hold the same context dict.
SameContext(s, t) == context[s] = context[t]

\* C28: Copy() hands its context dict to the child: what SetContext sets on
\* a scope is what GetContext returns on every scope holding the same dict
\* and on no other scope. ClearContext gives the caller a new empty dict
\* that no other scope holds and leaves the dict and the context of every
\* other scope as they were. The scope NewScope() returns holds a dict no
\* other scope holds. No other step makes or breaks such sharing.
C28_ContextAliasedByCopy ==
  [][ /\ \A s \in Scopes :
           Copy(s) => /\ context'[Len(vars) + 1] = context[s]
                      /\ ctxHeap' = ctxHeap
      /\ \A s \in Scopes :
           NewScopeMethod(s) =>
             /\ \A t \in Scopes : context'[Len(vars) + 1] # context'[t]
             /\ \A t \in Scopes : ctxHeap'[context'[t]] = ctxHeap[context[t]]
      /\ \A s \in Scopes, n \in {"c1"}, v \in {"x"} :
           SetContext(s, n, v) =>
             /\ context' = context
             /\ \A t \in Scopes :
                  IF SameContext(s, t) THEN GetContext(t, n)' = v
                  ELSE ctxHeap'[context[t]] = ctxHeap[context[t]]
      /\ \A s \in Scopes :
           ClearContext(s) =>
             /\ DOMAIN ctxHeap'[context'[s]] = {}
             /\ \A t \in Scopes \ {s} :
                  /\ context'[t] = context[t]
                  /\ context'[t] # context'[s]
                  /\ ctxHeap'[context'[t]] = ctxHeap[context[t]] ]_allVars

\* A scope set c1 in the dict it shared with its copy and then called
\* ClearContext: the copy still reads c1, the scope itself no longer does.
C28_Witness ==
  \E c \in Scopes :
    /\ how[c] = "copy"
    /\ ~SameContext(c, from[c])
    /\ GetContext(c, "c1") = "x"
    /\ GetContext(from[c], "c1") = Nil


\* ------------------------------------------- claims on destructor goroutines
\* C23: no closure passed to AddDestructor is invoked more than once, and
\* the goroutine Close() started for ds[i] invokes that closure and no
\* other one (nor does it fail on the index it reads).
C23_EachDestructorOnce ==
  /\ ~crashed
  /\ \A d \in Dtors : invoked[d] <= 1
  /\ \A d \in Dtors : ranIn[d] \in {NoTask, Adder, GoTask(d)}


\* C24: while Close() waits for a closure it has started and that has not
\* returned, the closing task holds the mutex of no scope: neither of the
\* scope the closure was registered on nor of a scope above it, so the
\* closure can take any of them without waiting for the timer.
C24_NoMutexWhileDestructorRuns ==
  \A e \in Tasks :
    (WaitsFor(e) /\ ~CtxDone(e)) => \A s \in Scopes : mutex[s] # Closer


\* C29: a scope made by S.NewScope() is closed with S: when Close() of S
\* marks S destroyed, every scope S.NewScope() returned is marked destroyed,
\* its list is empty, and every closure registered on it has been called
\* at once by AddDestructor or has been started by Close().
C29_NewScopeClosedWithParent ==
  [][ CloseMark =>
        \A x \in Scopes :
          (how[x] = "new" /\ from[x] = Top.scope) =>
            /\ is_destroyed[x] /\ fn[x] = << >>
            /\ \A d \in Dtors :
                 owner[d] = x => (RanAtOnce(d) \/ Launched(d)) ]_allVars


\* ------------------------------------------------ claims on normalize_value
\* A value is or holds, at some nesting, a LazyExpr, a StoredQuery or a
\* callable.
RECURSIVE HoldsLazy(_)
HoldsLazy(v) ==
  \/ v.tag \in {"LazyExpr", "StoredQuery", "func"}
  \/ /\ v.tag \in {"Dict", "map", "Memberer"}
     /\ \E i \in 1..Len(v.items) : HoldsLazy(v.items[i].v)
  \/ /\ v.tag = "slice"
     /\ \E i \in 1..Len(v.elems) : HoldsLazy(v.elems[i])

\* C26: the dict RowToDict returns holds no LazyExpr, StoredQuery or
\* callable, neither as the value of a column nor inside one.
C26_FullyMaterialized ==
  outRow.tag = "Dict" => ~HoldsLazy(outRow)

\* How deep the slices and dicts of a value are nested.
RECURSIVE Height(_)
Height(v) ==
  IF v.tag \in {"Dict", "map", "Memberer"} /\ v.items # << >>
  THEN 1 + Height(v.items[1].v)
  ELSE IF v.tag = "slice" /\ v.elems # << >>
       THEN 1 + Height(v.elems[1])
       ELSE 0

\* C27: normalize_value comes to an end on values that refer to themselves,
\* giving Null for what it reaches deeper than MaxDepth: a LazyExpr or a
\* callable that reduces to itself becomes Null; a chain of LazyExpr around
\* a string becomes the string when it is at most MaxDepth long and Null
\* when it is longer; a slice or a Memberer that holds itself becomes
\* MaxDepth + 1 nested slices or dicts around Null, one for each depth from
\* 0 to MaxDepth.
C27_DepthBounded ==
  outRow.tag = "Dict" =>
    \A i \in 1..Len(inRow.items) :
      LET in  == inRow.items[i].v
          out == DictGet(outRow, inRow.items[i].k)
      IN /\ in \in {LazyExpr(Self), Callable(Self)} => out = GoNull
         /\ \A n \in 1..(MaxDepth + 1) :
              in = LazyChain(n, Str("a")) =>
                out = IF n <= MaxDepth THEN Str("a") ELSE GoNull
         /\ in \in {Slice(<<Self>>), Memberer(<<Item("m", Self)>>)} =>
              /\ Height(out) = MaxDepth + 1
              /\ out.tag = IF in.tag = "slice" THEN "slice" ELSE "Dict"

\* RowToDict has returned for a row with a LazyExpr that reduces to itself,
\* and for a row with a chain of MaxDepth + 1 LazyExpr.
C27_Witness ==
  /\ outRow.tag = "Dict"
  /\ \E i \in 1..Len(inRow.items) :
       inRow.items[i].v \in {LazyExpr(Self), LazyChain(MaxDepth + 1, Str("a"))}
  /\ \E i \in 1..Len(outRow.items) : outRow.items[i].v = GoNull


\* --------------------------------------------------- claims on scope() rows
\* C30: for the row the scope() plugin emits for a scope, _ScopeAssociative
\* is applicable and its GetMembers returns the names bound in the frames
\* of that scope, all of them and no others.
C30_ScopeRowMembers ==
  \A s \in Scopes :
    /\ ScopeApplicable(ScopeRow(s))
    /\ ScopeGetMembers(s, ScopeRow(s))
         = UNION { DOMAIN Frames(s)[i] : i \in 1..Len(Frames(s)) }


\* ---------------------------------------------------- claims on defaults
\* The frames of s that supply a default: not dicts.
Defaulting(s) == { i \in 1..Len(Frames(s)) : Frames(s)[i] \in HostRows }

\* C22: for a name no frame of the scope binds, Resolve returns (nil, false)
\* when no frame supplies a default, and otherwise, with present = true,
\* the default of the newest frame that supplies one; so with a frame
\* that falls through to (Null, false), and no newer default, every unbound
\* name resolves to (Null, true).
C22_NewestDefault ==
  \A s \in Scopes, k \in Names :
    (\A i \in 1..Len(Frames(s)) :
        Frames(s)[i] \in HostRows \/ k \notin DOMAIN Frames(s)[i]) =>
      IF Defaulting(s) = {}
      THEN Resolve(s, k) = <<Nil, FALSE>>
      ELSE LET n == CHOOSE i \in Defaulting(s) : \A j \in Defaulting(s) : j <= i
           IN /\ Resolve(s, k) = <<Frames(s)[n].default, TRUE>>
              /\ Frames(s)[n].default = Null => Resolve(s, k) = <<Null, TRUE>>

\* A scope with a frame that falls through to (Null, false) below a frame
\* supplying the default d: the unbound k2 resolves to (d, true); and a
\* bound name does not take the default.
C22_Witness ==
  \E s \in Scopes :
    /\ \E i, j \in Defaulting(s) :
         i < j /\ Frames(s)[i].default = Null /\ Frames(s)[j].default = "d"
    /\ Resolve(s, "k2") = <<"d", TRUE>>
    /\ Resolve(s, "k1") = <<"v1", TRUE>>


\* ------------------------------------------------------- claims on Replay
\* The parameter list as the replay text spells it.
RECURSIVE Commas(_)
Commas(ps) ==
  IF ps = << >> THEN << >>
  ELSE IF Len(ps) = 1 THEN <<ps[1]>>
  ELSE <<ps[1], ",">> \o Commas(Tail(ps))

\* C21: Marshal of a definition named n gives a "Replay" item whose data is
\* the JSON string of LET `n` = body, or of LET `n`(p1, p2) = body when the
\* definition has parameters, with body the canonical text; Unmarshal of
\* that item returns no error, evaluates one statement and leaves n bound
\* to a definition with the same name, the same parameters and the same
\* canonical body. Unmarshal of an item whose data is not JSON or whose
\* text does not parse returns the error, evaluates nothing and binds
\* nothing.
C21_ReplayRoundTrip ==
  /\ (rpStored # NoResult /\ rpItem # NoResult /\ rpItem \notin ForeignItems) =>
       /\ rpItem.type = "Replay"
       /\ rpItem.data =
            <<"\"", "LET", BQ, rpStored.name, BQ>>
              \o (IF rpStored.parameters.isNil THEN << >>
                  ELSE <<"(">> \o Commas(rpStored.parameters.list) \o <<")">>)
              \o <<"=">> \o ToStringVQL(rpStored.body) \o <<"\"">>
       /\ rpErr # "none" =>
            /\ rpErr = "" /\ rpEvals = 1
            /\ rpBound.name = rpStored.name
            /\ rpBound.parameters = rpStored.parameters
            /\ ToStringVQL(rpBound.body) = ToStringVQL(rpStored.body)
  /\ rpErr \notin {"none", ""} => (rpEvals = 0 /\ rpBound = NoResult)
  /\ (rpItem \in ForeignItems /\ rpErr # "none") => rpErr \in {"json", "parse"}

\* A definition with two parameters and a body that needs its parentheses
\* was marshalled and replayed: the target scope binds it.
C21_Witness ==
  /\ rpStored # NoResult
  /\ rpStored.name = "n" /\ rpStored.parameters = Params(<<"p", "q">>)
  /\ rpItem = Marshal(rpStored)
  /\ ToStringVQL(rpStored.body) = <<"(", "x", "+", "1", ")", "*", "x">>
  /\ rpErr = "" /\ rpEvals = 1
  /\ rpBound = rpStored

====
